---- MODULE Spec2Model ----
(***************************************************************************)
(* Kram Pattern gallery: the bounded-retry helper (withRetry), the         *)
(* generation endpoint POST /api/v1/kram/generate/kram-pattern with its    *)
(* orchestrator generateKramPattern, and the stores they write.            *)
(*                                                                         *)
(* Strings that the code inspects with String.includes (error messages)    *)
(* or with a regular expression (tag ids) are TLA+ strings, matched        *)
(* character by character.  Free text whose content the code never reads   *)
(* (prompts, tag names, descriptions, URLs) is kept as its length plus the *)
(* flags the code tests (blank, contains a word of validatePrompt's black  *)
(* list).                                                                  *)
(***************************************************************************)
EXTENDS Integers, Sequences, FiniteSets, TLC

VARIABLES
    pc,               \* per process: the statement it is at
    wr,               \* per process: the frame of its running withRetry call
    body,             \* per request: the parsed JSON body
    selectedTags,     \* per request: route.ts `selectedTags`
    kram,             \* per request: locals of generateKramPattern
    resp,             \* per request: the HTTP response sent
    obs,              \* per request: what the request has done so far (observation only)
    tagsTable,        \* table "tags"
    historyTable,     \* table "history"
    outputTable,      \* table "output_generate"
    client,           \* open-ai.ts `client`
    isInitialized,    \* open-ai.ts `isInitialized`
    clientInitialized,\* route.ts `clientInitialized`
    envApiKey,        \* whether process.env.OPENAI_API_KEY is set
    served,           \* number of generation requests received so far
    val,              \* a call of validateKramRequest: its argument and its result
    gal,              \* the handler of GET /api/v1/kram/gallery
    item,             \* the handler of GET /api/v1/kram/gallery/[id]
    post,             \* per handler of POST /api/v1/kram/tags: its locals
    bat               \* a call of generateImageBatch: its locals

\* the state of the endpoints other than the generation endpoint
endpointVars == <<val, gal, item, post, bat>>

vars == <<pc, wr, body, selectedTags, kram, resp, obs, tagsTable, historyTable,
          outputTable, client, isInitialized, clientInitialized, envApiKey, served,
          endpointVars>>

-----------------------------------------------------------------------------
(* Bounds of the model *)

\* number of generation requests served, one after the other
MaxServed == 2

\* request handlers that can be running
NumHandlers == 2

\* withRetry is exercised on its own with maxRetries in 0..MaxRetriesCfg
MaxRetriesCfg == 5

Reqs == 1..NumHandlers
Harness == NumHandlers + 1
Procs == Reqs \cup {Harness}

-----------------------------------------------------------------------------
(* Strings *)

Min(a, b) == IF a <= b THEN a ELSE b

RECURSIVE Pow2(_)
Pow2(n) == IF n = 0 THEN 1 ELSE 2 * Pow2(n - 1)

\* String.prototype.includes
Includes(s, needle) ==
    \E i \in 1..(Len(s) - Len(needle) + 1) : SubSeq(s, i, i + Len(needle) - 1) = needle

-----------------------------------------------------------------------------
(* withRetry *)

MaxRetries == 3
BaseDelay == 1000
MaxDelay == 8000

DEFAULT_RATE_LIMIT_CONFIG ==
    [maxRetries |-> MaxRetries, baseDelay |-> BaseDelay, maxDelay |-> MaxDelay]

\* An Error object: its message, and the invocation of the operation that
\* raised it (its identity).  NoError is the unassigned `lastError`.
NoError == [msg |-> "", inv |-> 0]

\* Messages the external API fails with.
E_POLICY  == "400 content_policy_violation"
E_INVALID == "400 invalid_request_error"
E_RATE    == "429 rate_limit_exceeded"
E_RATE2   == "429 rate_limit reached"
E_QUOTA   == "429 quota_exceeded"
E_TIMEOUT == "connect ETIMEDOUT"
UpstreamErrors == {E_POLICY, E_INVALID, E_RATE, E_RATE2, E_QUOTA, E_TIMEOUT}

NoFrame ==
    [config |-> DEFAULT_RATE_LIMIT_CONFIG, attempt |-> 0, lastError |-> NoError,
     invocations |-> 0, delays |-> <<>>, delay |-> 0,
     outcome |-> "none", value |-> "none", thrown |-> NoError]

NewFrame(config) == [NoFrame EXCEPT !.config = config]

\* part_006:837
NonRetryablePolicyOnly(msg) == Includes(msg, "content_policy_violation")
NonRetryable(msg) ==
    Includes(msg, "content_policy_violation") \/ Includes(msg, "invalid_request")

\* part_006:847
BackoffDelayUncapped(config, attempt) == config.baseDelay * Pow2(attempt)
BackoffDelay(config, attempt) ==
    Min(config.baseDelay * Pow2(attempt), config.maxDelay)

\* part_006:842
FinalAttemptOffByOne(config, attempt) == attempt + 1 = config.maxRetries
FinalAttempt(config, attempt) == attempt = config.maxRetries

\* What the awaited operation of process p can resolve to.
OpValues(p) ==
    IF p = Harness THEN {"value"}
    ELSE IF kram[p].phase = "image_generation" THEN {"url", "nourl"}
    ELSE {"content", "empty"}

\* for (attempt ...; attempt <= config.maxRetries; ...) { try { return await operation()
WithRetryInvoke(p) ==
    /\ pc[p] = "wr_loop"
    /\ IF wr[p].attempt <= wr[p].config.maxRetries
       THEN /\ wr' = [wr EXCEPT ![p].invocations = @ + 1]
            /\ pc' = [pc EXCEPT ![p] = "wr_await"]
            /\ obs' = [obs EXCEPT ![p].inflight = @ + 1,
                                  ![p].called = @ \cup {kram[p].phase}]
       ELSE /\ wr' = [wr EXCEPT ![p].outcome = "threw", ![p].thrown = wr[p].lastError]
            /\ pc' = [pc EXCEPT ![p] = "wr_end"]
            /\ obs' = obs
    /\ UNCHANGED endpointVars
    /\ UNCHANGED <<body, selectedTags, kram, resp, tagsTable, historyTable,
                   outputTable, client, isInitialized, clientInitialized, envApiKey, served>>

\* the operation resolves: `return await operation()`
WithRetryResolve(p) ==
    /\ pc[p] = "wr_await"
    /\ \E v \in OpValues(p) :
         wr' = [wr EXCEPT ![p].outcome = "returned", ![p].value = v]
    /\ pc' = [pc EXCEPT ![p] = "wr_end"]
    /\ obs' = [obs EXCEPT ![p].inflight = @ - 1]
    /\ UNCHANGED endpointVars
    /\ UNCHANGED <<body, selectedTags, kram, resp, tagsTable, historyTable,
                   outputTable, client, isInitialized, clientInitialized, envApiKey, served>>

\* the operation rejects: the catch block
WithRetryCatch(p) ==
    /\ pc[p] = "wr_await"
    /\ \E msg \in UpstreamErrors :
         LET error == [msg |-> msg, inv |-> wr[p].invocations]
             f == [wr[p] EXCEPT !.lastError = error]
         IN  IF NonRetryable(error.msg)
             THEN /\ wr' = [wr EXCEPT ![p] = [f EXCEPT !.outcome = "threw",
                                                       !.thrown = error]]
                  /\ pc' = [pc EXCEPT ![p] = "wr_end"]
             ELSE IF FinalAttempt(f.config, f.attempt)
             THEN /\ wr' = [wr EXCEPT ![p] = [f EXCEPT !.outcome = "threw",
                                                       !.thrown = f.lastError]]
                  /\ pc' = [pc EXCEPT ![p] = "wr_end"]
             ELSE /\ wr' = [wr EXCEPT ![p] =
                              [f EXCEPT !.delay = BackoffDelay(f.config, f.attempt),
                                        !.delays = Append(@, BackoffDelay(f.config, f.attempt))]]
                  /\ pc' = [pc EXCEPT ![p] = "wr_delay"]
    /\ obs' = [obs EXCEPT ![p].inflight = @ - 1]
    /\ UNCHANGED endpointVars
    /\ UNCHANGED <<body, selectedTags, kram, resp, tagsTable, historyTable,
                   outputTable, client, isInitialized, clientInitialized, envApiKey, served>>

\* await new Promise((resolve) => setTimeout(resolve, delay)); attempt++
WithRetryDelayElapsed(p) ==
    /\ pc[p] = "wr_delay"
    /\ wr' = [wr EXCEPT ![p].attempt = @ + 1, ![p].delay = 0]
    /\ pc' = [pc EXCEPT ![p] = "wr_loop"]
    /\ UNCHANGED endpointVars
    /\ UNCHANGED <<body, selectedTags, kram, resp, obs, tagsTable, historyTable,
                   outputTable, client, isInitialized, clientInitialized, envApiKey, served>>

-----------------------------------------------------------------------------
(* A caller of withRetry alone: any maxRetries, the default delays *)

HarnessCall ==
    /\ pc[Harness] = "h_idle"
    /\ \E m \in 0..MaxRetriesCfg :
         wr' = [wr EXCEPT ![Harness] =
                  NewFrame([DEFAULT_RATE_LIMIT_CONFIG EXCEPT !.maxRetries = m])]
    /\ pc' = [pc EXCEPT ![Harness] = "wr_loop"]
    /\ UNCHANGED endpointVars
    /\ UNCHANGED <<body, selectedTags, kram, resp, obs, tagsTable, historyTable,
                   outputTable, client, isInitialized, clientInitialized, envApiKey, served>>

HarnessSettled ==
    /\ pc[Harness] = "wr_end"
    /\ pc' = [pc EXCEPT ![Harness] = "h_done"]
    /\ UNCHANGED endpointVars
    /\ UNCHANGED <<wr, body, selectedTags, kram, resp, obs, tagsTable, historyTable,
                   outputTable, client, isInitialized, clientInitialized, envApiKey, served>>

-----------------------------------------------------------------------------
(* Request data *)

\* a prompt: its length in characters, whether prompt.trim() is empty, and
\* whether it holds a word of validatePrompt's problematicPatterns
Prompt(len, blank, flagged) == [len |-> len, blank |-> blank, flagged |-> flagged]

\* a row of table "tags": the id, the lengths of name, description and
\* image_url, and whether image_url.trim() is empty
Tag(id, name, descLen, urlLen, urlBlank) ==
    [id |-> id, name |-> name, nameLen |-> Len(name), descLen |-> descLen, urlLen |-> urlLen,
     urlBlank |-> urlBlank]

ID_A      == "11111111-1111-4111-8111-111111111111"
ID_B      == "2222222F-2222-4222-B222-222222222222"
ID_C      == "33333333-3333-4333-9333-333333333333"
ID_ABSENT == "aaaaaaaa-aaaa-4aaa-8aaa-aaaaaaaaaaaa"
ID_V0     == "11111111-1111-0111-8111-111111111111"
ID_WORD   == "not-a-uuid"

HexDigits ==
    {"0", "1", "2", "3", "4", "5", "6", "7", "8", "9",
     "a", "b", "c", "d", "e", "f", "A", "B", "C", "D", "E", "F"}

CharAt(s, i) == SubSeq(s, i, i)

\* /^[0-9a-f]{8}-[0-9a-f]{4}-[1-5][0-9a-f]{3}-[89ab][0-9a-f]{3}-[0-9a-f]{12}$/i
UuidRegexTest(id) ==
    /\ Len(id) = 36
    /\ \A i \in 1..36 :
         IF i \in {9, 14, 19, 24} THEN CharAt(id, i) = "-"
         ELSE IF i = 15 THEN CharAt(id, i) \in {"1", "2", "3", "4", "5"}
         ELSE IF i = 20 THEN CharAt(id, i) \in {"8", "9", "a", "b", "A", "B"}
         ELSE CharAt(id, i) \in HexDigits

\* dalle_options / chat_options; present = FALSE is `undefined`, "" is an
\* absent string member, hasMaxTokens = FALSE an absent max_tokens
NoDalle == [present |-> FALSE, size |-> "", quality |-> "", style |-> ""]
NoChat  == [present |-> FALSE, model |-> "", hasMaxTokens |-> FALSE, max_tokens |-> 0]

\* Array.prototype.filter
Filter(seq, Keep(_)) == SelectSeq(seq, Keep)

Range(seq) == {seq[i] : i \in 1..Len(seq)}

-----------------------------------------------------------------------------
(* validateKramRequest *)

MaxPromptLen == 900
MaxTags == 10
MinMaxTokens == 50
MaxMaxTokens == 2000

PromptEmpty(prompt) == prompt.len = 0 \/ prompt.blank
PromptTooLongInclusive(prompt) == prompt.len >= MaxPromptLen
PromptTooLong(prompt) == prompt.len > MaxPromptLen
TagWithoutImage(tag) == tag.urlLen = 0 \/ tag.urlBlank

ValidateKramRequest(request) ==
    LET prompt == request.prompt
        tags   == request.tags
        dalle  == request.dalle_options
        chat   == request.chat_options
        ePrompt ==
            IF PromptEmpty(prompt) THEN <<"Prompt cannot be empty">>
            ELSE IF PromptTooLong(prompt)
                 THEN <<"Prompt too long (max 900 characters)">>
                 ELSE <<>>
        BadId(tag) == ~UuidRegexTest(tag.id)
        eTags ==
            IF request.hasTags
            THEN (IF Len(tags) > MaxTags THEN <<"Too many tags (max 10 allowed)">> ELSE <<>>)
                 \o (IF Len(Filter(tags, BadId)) > 0
                     THEN <<"Invalid tag ID format">> ELSE <<>>)
                 \o (IF Len(Filter(tags, TagWithoutImage)) > 0
                     THEN <<"Tags missing image URLs">> ELSE <<>>)
            ELSE <<>>
        eDalle ==
            IF dalle.present
            THEN (IF dalle.size # "" /\ dalle.size \notin {"1024x1024", "1792x1024", "1024x1792"}
                  THEN <<"Invalid image size">> ELSE <<>>)
                 \o (IF dalle.quality # "" /\ dalle.quality \notin {"standard", "hd"}
                     THEN <<"Invalid image quality">> ELSE <<>>)
                 \o (IF dalle.style # "" /\ dalle.style \notin {"vivid", "natural"}
                     THEN <<"Invalid image style">> ELSE <<>>)
            ELSE <<>>
        eChat ==
            IF chat.present
            THEN (IF chat.model # "" /\ chat.model \notin {"gpt-4", "gpt-4-turbo", "gpt-3.5-turbo"}
                  THEN <<"Invalid chat model">> ELSE <<>>)
                 \o (IF /\ chat.hasMaxTokens
                        /\ chat.max_tokens # 0
                        /\ (chat.max_tokens < MinMaxTokens \/ chat.max_tokens > MaxMaxTokens)
                     THEN <<"Invalid max_tokens (must be between 50 and 2000)">> ELSE <<>>)
            ELSE <<>>
        errors == ePrompt \o eTags \o eDalle \o eChat
    IN  [valid |-> Len(errors) = 0, errors |-> errors]

-----------------------------------------------------------------------------
(* buildEnhancedPromptWithImages, validatePrompt, validateMessage *)

\* characters of the template of buildEnhancedPromptWithImages outside its
\* three placeholders
EnhancedTemplateLen == 337
\* " (undefined)": imageTagContext carries no description
StyleUndefinedLen == 12
\* "Reference image " and ": " around the index, " style from "
RefPrefixLen == 18
RefStyleFromLen == 12

SumOver(seq, F(_)) ==
    LET S[i \in 0..Len(seq)] == IF i = 0 THEN 0 ELSE S[i - 1] + F(seq[i])
    IN  S[Len(seq)]

\* buildEnhancedPromptWithImages: the prompt handed to imageHelper.  An index
\* below 10 is one digit.  With tags the result holds the template's words, so
\* it is not blank; the black-listed words looked for are the user prompt's.
BuildEnhancedPromptWithImages(userPrompt, tags) ==
    IF Len(tags) = 0 THEN userPrompt
    ELSE LET Style(tag) == tag.nameLen + StyleUndefinedLen
             Ref(tag)   == RefPrefixLen + 1 + tag.nameLen + RefStyleFromLen + tag.urlLen
         IN  Prompt(userPrompt.len + EnhancedTemplateLen
                      + SumOver(tags, Style) + 2 * (Len(tags) - 1)
                      + SumOver(tags, Ref) + (Len(tags) - 1),
                    FALSE, userPrompt.flagged)

MaxDallePromptLen == 1000

\* image.ts validatePrompt
ValidatePrompt(prompt) ==
    IF PromptEmpty(prompt)
    THEN [valid |-> FALSE, error |-> "Prompt cannot be empty"]
    ELSE IF prompt.len > MaxDallePromptLen
    THEN [valid |-> FALSE,
          error |-> "Prompt too long. DALL-E prompts should be under 1000 characters"]
    ELSE IF prompt.flagged
    THEN [valid |-> FALSE, error |-> "Prompt may violate content policy"]
    ELSE [valid |-> TRUE, error |-> ""]

MaxMessageLen == 8000
\* characters of generateImageDescription's prompt outside its placeholders,
\* and of the heading of its tagContext
DescriptionTemplateLen == 437
DescriptionTagHeadLen == 29

\* length of the message generateImageDescription hands to chatHelper
DescriptionMessageLen(promptLen, tags) ==
    LET Line(tag) == 2 + tag.nameLen + 2 + tag.descLen
    IN  DescriptionTemplateLen + promptLen
        + (IF Len(tags) > 0
           THEN DescriptionTagHeadLen + SumOver(tags, Line) + (Len(tags) - 1)
           ELSE 0)

\* chat validateMessage: content of a user message
ValidateMessage(contentLen) ==
    IF contentLen = 0 THEN [valid |-> FALSE, error |-> "Message content cannot be empty"]
    ELSE IF contentLen > MaxMessageLen
    THEN [valid |-> FALSE, error |-> "Message content too long (max 8000 characters)"]
    ELSE [valid |-> TRUE, error |-> ""]

\* characters of generateOutputTags's prompt outside its placeholders, and of
\* the heading of its existingTagsContext
TagsTemplateLen == 517
TagsContextHeadLen == 22
\* characters of the fallback description around the original prompt
FallbackDescriptionLen == 32
\* length of a description the chat API writes (3-4 sentences are asked for)
GeneratedDescriptionLen == 300

TagsMessageLen(promptLen, descriptionLen, tags) ==
    LET Name(tag) == tag.nameLen
    IN  TagsTemplateLen + promptLen + descriptionLen
        + (IF Len(tags) > 0 /\ SumOver(tags, Name) + 2 * (Len(tags) - 1) > 0
           THEN TagsContextHeadLen + SumOver(tags, Name) + 2 * (Len(tags) - 1)
           ELSE 0)

-----------------------------------------------------------------------------
(* Errors and their HTTP status *)

MSG_NO_CLIENT == "OpenAI client not initialized. Call setClient() first."
MSG_NO_KEY ==
    "OpenAI API key not found. Provide apiKey or set OPENAI_API_KEY environment variable."
MSG_IMPORT == "Failed to initialize OpenAI client: Cannot find module 'openai'"
MSG_NO_URL == "No image URL returned from DALL-E API"
MSG_DB == "Can't reach database server"

\* image.ts imageHelper, catch block: the message of the Error it throws
EnhanceImageError(errorMessage) ==
    "Image generation failed: " \o
    (IF Includes(errorMessage, "content_policy_violation")
     THEN "Image prompt violates OpenAI content policy. Please modify your prompt and try again."
     ELSE IF Includes(errorMessage, "rate_limit_exceeded")
     THEN "Rate limit exceeded. Please wait a moment before trying again."
     ELSE IF Includes(errorMessage, "quota_exceeded")
     THEN "API quota exceeded. Please check your OpenAI account usage."
     ELSE errorMessage)

\* new KramPatternError(message, code, phase, originalError)
NoKramError == [code |-> "", phase |-> "", originalMessage |-> ""]
KramPatternError(code, phase, originalMessage) ==
    [code |-> code, phase |-> phase, originalMessage |-> originalMessage]

\* route.ts, catch of generateKramPattern: switch (error.code)
StatusForKramError(error) ==
    IF error.code = "VALIDATION_ERROR" THEN 400
    ELSE IF error.code = "IMAGE_GENERATION_ERROR"
    THEN IF Includes(error.originalMessage, "content_policy_violation") THEN 400
         ELSE IF Includes(error.originalMessage, "rate_limit") THEN 429
         ELSE 502
    ELSE IF error.code \in {"DESCRIPTION_GENERATION_ERROR", "TAG_GENERATION_ERROR"} THEN 502
    ELSE 500

\* route.ts, outer catch
StatusForError(message) ==
    IF Includes(message, "Client not initialized") THEN 500
    ELSE IF Includes(message, "rate limit") THEN 429
    ELSE IF Includes(message, "quota") THEN 429
    ELSE IF Includes(message, "content policy") THEN 400
    ELSE IF Includes(message, "SyntaxError") THEN 400
    ELSE 500

-----------------------------------------------------------------------------
(* The requests served *)

P_OK      == Prompt(21, FALSE, FALSE)
P_EMPTY   == Prompt(0, FALSE, FALSE)
P_BLANK   == Prompt(3, TRUE, FALSE)
P_LONG    == Prompt(700, FALSE, FALSE)
P_MAX     == Prompt(900, FALSE, FALSE)
P_OVER    == Prompt(901, FALSE, FALSE)
P_FLAGGED == Prompt(30, FALSE, TRUE)

TAG_A == Tag(ID_A, "Kram Blue", 40, 45, FALSE)
TAG_B == Tag(ID_B, "Natural Dyes", 8000, 45, FALSE)
TAG_C == Tag(ID_C, "Batik-01", 40, 0, FALSE)

KramBody(prompt, tag_ids, dalle_options, chat_options) ==
    [prompt |-> prompt, tag_ids |-> tag_ids,
     dalle_options |-> dalle_options, chat_options |-> chat_options]

NoBody == KramBody(P_EMPTY, <<>>, NoDalle, NoChat)

Bodies ==
    {KramBody(p, t, NoDalle, NoChat) :
        p \in {P_OK, P_LONG},
        t \in {<<>>, <<ID_A>>, <<ID_B, ID_A>>, <<ID_A, ID_ABSENT>>, <<ID_A, ID_A>>,
               <<ID_C>>, <<ID_WORD>>, <<ID_ABSENT, ID_V0>>}}
    \cup {KramBody(p, t, NoDalle, NoChat) :
            p \in {P_EMPTY, P_BLANK, P_OVER, P_FLAGGED}, t \in {<<>>, <<ID_ABSENT>>, <<ID_WORD>>}}
    \cup {KramBody(P_OK, <<ID_WORD>>, [NoDalle EXCEPT !.present = TRUE, !.size = "512x512"],
                   NoChat),
          KramBody(P_OK, <<>>, [NoDalle EXCEPT !.present = TRUE, !.quality = "hd"],
                   [NoChat EXCEPT !.present = TRUE, !.hasMaxTokens = TRUE, !.max_tokens = 0])}

NoResp == [status |-> 0, history_id |-> 0, outputs |-> {}]

\* reqNo: the request's number; inflight: its external calls in flight; called:
\* the steps whose external call was issued; lookups: tag lookups issued;
\* lookedUp: a tag lookup has returned; phases: the phases begun, in order;
\* completed: the phases that returned; extFailed: the steps whose external call
\* failed for good, and upstream: the message it failed with; writes: row
\* creations issued
NoObs ==
    [reqNo |-> 0, inflight |-> 0, called |-> {}, lookups |-> 0, lookedUp |-> FALSE,
     phases |-> <<>>, completed |-> {}, extFailed |-> {}, upstream |-> "", writes |-> 0]

NoDescription == [kind |-> "none", len |-> 0]

NoKram ==
    [phase |-> "", image |-> "none", description |-> NoDescription,
     outputTags |-> "none", error |-> NoKramError, historyRecord |-> 0]

Respond(r, status, history_id, outputs) ==
    /\ resp' = [resp EXCEPT ![r] =
                  [status |-> status, history_id |-> history_id, outputs |-> outputs]]
    /\ pc' = [pc EXCEPT ![r] = "done"]

\* A request arrives at handler r, which is free.  reqNo numbers the requests.
RequestArrives(r) ==
    /\ pc[r] \in {"idle", "done"}
    /\ served < MaxServed
    /\ served' = served + 1
    /\ \E b \in Bodies : body' = [body EXCEPT ![r] = b]
    /\ pc' = [pc EXCEPT ![r] = "ensure_client"]
    /\ wr' = [wr EXCEPT ![r] = NoFrame]
    /\ selectedTags' = [selectedTags EXCEPT ![r] = <<>>]
    /\ kram' = [kram EXCEPT ![r] = NoKram]
    /\ resp' = [resp EXCEPT ![r] = NoResp]
    /\ obs' = [obs EXCEPT ![r] = [NoObs EXCEPT !.reqNo = served + 1]]
    /\ UNCHANGED endpointVars
    /\ UNCHANGED <<tagsTable, historyTable, outputTable, client, isInitialized,
                   clientInitialized, envApiKey>>

\* the id of the first tag that POST /api/v1/kram/tags creates
ID_CREATED == "00000003-0000-4000-8000-000000000000"

\* requests served while another is in progress
ConcurrentBodies ==
    {KramBody(P_OK, t, NoDalle, NoChat) : t \in {<<>>, <<ID_B, ID_A>>, <<ID_A, ID_CREATED>>}}

\* a request arrives at handler r while the other handler may be running
RequestArrivesBeside(r) ==
    /\ pc[r] \in {"idle", "done"}
    /\ served < MaxServed
    /\ served' = served + 1
    /\ \E b \in ConcurrentBodies : body' = [body EXCEPT ![r] = b]
    /\ pc' = [pc EXCEPT ![r] = "ensure_client"]
    /\ wr' = [wr EXCEPT ![r] = NoFrame]
    /\ selectedTags' = [selectedTags EXCEPT ![r] = <<>>]
    /\ kram' = [kram EXCEPT ![r] = NoKram]
    /\ resp' = [resp EXCEPT ![r] = NoResp]
    /\ obs' = [obs EXCEPT ![r] = [NoObs EXCEPT !.reqNo = served + 1]]
    /\ UNCHANGED endpointVars
    /\ UNCHANGED <<tagsTable, historyTable, outputTable, client, isInitialized,
                   clientInitialized, envApiKey>>

\* ensureClientInitialized up to the await of the dynamic import in
\* initializeClient; its error goes to the handler's outer catch
EnsureClientInitialized(r) ==
    /\ pc[r] = "ensure_client"
    /\ IF clientInitialized
       THEN /\ pc' = [pc EXCEPT ![r] = "validate"]
            /\ resp' = resp
       ELSE IF ~envApiKey
       THEN Respond(r, StatusForError(MSG_NO_KEY), 0, {})
       ELSE /\ pc' = [pc EXCEPT ![r] = "init_import"]
            /\ resp' = resp
    /\ UNCHANGED endpointVars
    /\ UNCHANGED <<wr, body, selectedTags, kram, obs, tagsTable, historyTable,
                   outputTable, client, isInitialized, clientInitialized, envApiKey, served>>

\* initializeClient after the import: setClient(openai); clientInitialized = true
InitializeClientDone(r) ==
    /\ pc[r] = "init_import"
    /\ client' = "openai"
    /\ isInitialized' = TRUE
    /\ clientInitialized' = TRUE
    /\ pc' = [pc EXCEPT ![r] = "validate"]
    /\ UNCHANGED endpointVars
    /\ UNCHANGED <<wr, body, selectedTags, kram, resp, obs, tagsTable, historyTable,
                   outputTable, envApiKey, served>>

\* the import or the constructor throws
InitializeClientFails(r) ==
    /\ pc[r] = "init_import"
    /\ Respond(r, StatusForError(MSG_IMPORT), 0, {})
    /\ UNCHANGED endpointVars
    /\ UNCHANGED <<wr, body, selectedTags, kram, obs, tagsTable, historyTable,
                   outputTable, client, isInitialized, clientInitialized, envApiKey, served>>

\* route.ts 180: !uuidRegex.test(id)
NotUuidNever(id) == FALSE
NotUuid(id) == ~UuidRegexTest(id)

\* route.ts 154-206: validateKramPatternRequest, the UUID filter, and the issue
\* of prisma.tags.findMany
RouteValidate(r) ==
    /\ pc[r] = "validate"
    /\ LET validation ==
               ValidateKramRequest([prompt |-> body[r].prompt, hasTags |-> TRUE,
                                    tags |-> <<>>,
                                    dalle_options |-> body[r].dalle_options,
                                    chat_options |-> body[r].chat_options])
           invalidIds == Filter(body[r].tag_ids, NotUuid)
       IN  IF ~validation.valid
           THEN /\ Respond(r, 400, 0, {})
                /\ obs' = [obs EXCEPT ![r].phases = Append(@, "validate")]
           ELSE IF Len(body[r].tag_ids) > 0
           THEN IF Len(invalidIds) > 0
                THEN /\ Respond(r, 400, 0, {})
                     /\ obs' = [obs EXCEPT ![r].phases = Append(@, "validate")]
                ELSE /\ pc' = [pc EXCEPT ![r] = "find_tags"]
                     /\ resp' = resp
                     /\ obs' = [obs EXCEPT ![r].phases = Append(@, "validate"),
                                           ![r].lookups = @ + 1]
           ELSE /\ pc' = [pc EXCEPT ![r] = "kram"]
                /\ resp' = resp
                /\ obs' = [obs EXCEPT ![r].phases = Append(@, "validate")]
    /\ UNCHANGED endpointVars
    /\ UNCHANGED <<wr, body, selectedTags, kram, tagsTable, historyTable,
                   outputTable, client, isInitialized, clientInitialized, envApiKey, served>>

\* the orders a query without ORDER BY can return a set of rows in
Orderings(S) == {s \in [1..Cardinality(S) -> S] : Range(s) = S}

\* prisma.tags.findMany({ where: { id: { in: tag_ids } } })
FindTags(tag_ids) == {t \in tagsTable : t.id \in Range(tag_ids)}

\* route.ts 209: selectedTags.length !== tag_ids.length
SomeTagMissingNever(found, tag_ids) == FALSE
SomeTagMissing(found, tag_ids) == Len(found) # Len(tag_ids)

\* route.ts 208-231: findMany has returned
FindTagsReturns(r) ==
    /\ pc[r] = "find_tags"
    /\ \E found \in Orderings(FindTags(body[r].tag_ids)) :
         /\ selectedTags' = [selectedTags EXCEPT ![r] = found]
         /\ IF SomeTagMissing(found, body[r].tag_ids)
            THEN Respond(r, 404, 0, {})
            ELSE IF Len(Filter(found, TagWithoutImage)) > 0
            THEN Respond(r, 400, 0, {})
            ELSE /\ pc' = [pc EXCEPT ![r] = "kram"]
                 /\ resp' = resp
    /\ obs' = [obs EXCEPT ![r].lookedUp = TRUE]
    /\ UNCHANGED endpointVars
    /\ UNCHANGED <<wr, body, kram, tagsTable, historyTable,
                   outputTable, client, isInitialized, clientInitialized, envApiKey, served>>

\* findMany rejects: the outer catch
FindTagsFails(r) ==
    /\ pc[r] = "find_tags"
    /\ Respond(r, StatusForError(MSG_DB), 0, {})
    /\ UNCHANGED endpointVars
    /\ UNCHANGED <<wr, body, selectedTags, kram, obs, tagsTable, historyTable,
                   outputTable, client, isInitialized, clientInitialized, envApiKey, served>>

-----------------------------------------------------------------------------
(* generateKramPattern and the handler's catch of its KramPatternError *)

\* getClient() does not throw
ClientReady == client # "null" /\ isInitialized

\* the handler's catch: `return NextResponse.json(errorResponse, { status: statusCode })`
KramThrows(r, error) ==
    /\ kram' = [kram EXCEPT ![r].error = error]
    /\ Respond(r, StatusForKramError(error), 0, {})

\* kram-pattern.ts 165-210 and image.ts 133-152: validation, the enhanced
\* prompt, imageHelper up to its withRetry
KramStart(r) ==
    /\ pc[r] = "kram"
    /\ LET request == [prompt |-> body[r].prompt, hasTags |-> TRUE,
                       tags |-> selectedTags[r],
                       dalle_options |-> body[r].dalle_options,
                       chat_options |-> body[r].chat_options]
           validation == ValidateKramRequest(request)
           enhancedPrompt == BuildEnhancedPromptWithImages(body[r].prompt, selectedTags[r])
           checked == ValidatePrompt(enhancedPrompt)
       IN  IF ~validation.valid
           THEN /\ KramThrows(r, KramPatternError("VALIDATION_ERROR", "validation", ""))
                /\ UNCHANGED <<wr, obs>>
           ELSE IF ~checked.valid
           THEN /\ kram' = [kram EXCEPT
                      ![r].phase = "image_generation",
                      ![r].error = KramPatternError("IMAGE_GENERATION_ERROR", "image_generation",
                                                    "Invalid prompt: " \o checked.error)]
                /\ Respond(r, StatusForKramError(
                                 KramPatternError("IMAGE_GENERATION_ERROR", "image_generation",
                                                  "Invalid prompt: " \o checked.error)), 0, {})
                /\ obs' = [obs EXCEPT ![r].phases = Append(@, "generate_image"),
                                      ![r].completed = @ \cup {"validate"}]
                /\ wr' = wr
           ELSE IF ~ClientReady
           THEN /\ kram' = [kram EXCEPT
                      ![r].phase = "image_generation",
                      ![r].error = KramPatternError("IMAGE_GENERATION_ERROR", "image_generation",
                                                    EnhanceImageError(MSG_NO_CLIENT))]
                /\ Respond(r, StatusForKramError(
                                 KramPatternError("IMAGE_GENERATION_ERROR", "image_generation",
                                                  EnhanceImageError(MSG_NO_CLIENT))), 0, {})
                /\ obs' = [obs EXCEPT ![r].phases = Append(@, "generate_image"),
                                      ![r].completed = @ \cup {"validate"}]
                /\ wr' = wr
           ELSE /\ kram' = [kram EXCEPT ![r].phase = "image_generation"]
                /\ wr' = [wr EXCEPT ![r] = NewFrame(DEFAULT_RATE_LIMIT_CONFIG)]
                /\ pc' = [pc EXCEPT ![r] = "wr_loop"]
                /\ resp' = resp
                /\ obs' = [obs EXCEPT ![r].phases = Append(@, "generate_image"),
                                      ![r].completed = @ \cup {"validate"}]
    /\ UNCHANGED endpointVars
    /\ UNCHANGED <<body, selectedTags, tagsTable, historyTable,
                   outputTable, client, isInitialized, clientInitialized, envApiKey, served>>

\* kram-pattern.ts 223-228, 242-247, 266-295: the step that follows the image
\* step, the description step and the tag step
AfterImage == "description"
AfterDescription == "tags"
AfterTags == "create_history"

\* image.ts 162-207 and kram-pattern.ts 212-221: withRetry of images.generate
\* has settled
ImageSettled(r) ==
    /\ pc[r] = "wr_end"
    /\ kram[r].phase = "image_generation"
    /\ IF wr[r].outcome = "returned" /\ wr[r].value = "url"
       THEN /\ kram' = [kram EXCEPT ![r].image = "url"]
            /\ pc' = [pc EXCEPT ![r] = AfterImage]
            /\ resp' = resp
            /\ obs' = [obs EXCEPT ![r].completed = @ \cup {"generate_image"}]
       ELSE /\ KramThrows(r, KramPatternError("IMAGE_GENERATION_ERROR", "image_generation",
                   EnhanceImageError(IF wr[r].outcome = "threw" THEN wr[r].thrown.msg
                                     ELSE MSG_NO_URL)))
            /\ obs' = [obs EXCEPT
                  ![r].extFailed = IF wr[r].outcome = "threw"
                                   THEN @ \cup {"image_generation"} ELSE @,
                  ![r].upstream = IF wr[r].outcome = "threw" THEN wr[r].thrown.msg ELSE @]
    /\ wr' = [wr EXCEPT ![r] = NoFrame]
    /\ UNCHANGED endpointVars
    /\ UNCHANGED <<body, selectedTags, tagsTable, historyTable,
                   outputTable, client, isInitialized, clientInitialized, envApiKey, served>>

\* kram-pattern.ts 227-231, generateImageDescription, chatHelper up to its
\* withRetry.  An HTTPException of chatHelper is caught by
\* generateImageDescription, which returns its fallback text.
DescriptionStart(r) ==
    /\ pc[r] = "description"
    /\ LET checked == ValidateMessage(DescriptionMessageLen(body[r].prompt.len, selectedTags[r]))
       IN  IF ~checked.valid \/ ~ClientReady
           THEN /\ kram' = [kram EXCEPT
                      ![r].phase = "description_generation",
                      ![r].description = [kind |-> "fallback",
                                          len |-> FallbackDescriptionLen + body[r].prompt.len]]
                /\ pc' = [pc EXCEPT ![r] = AfterDescription]
                /\ wr' = wr
                /\ obs' = [obs EXCEPT ![r].phases = Append(@, "generate_description"),
                                      ![r].completed = @ \cup {"generate_description"}]
           ELSE /\ kram' = [kram EXCEPT ![r].phase = "description_generation"]
                /\ wr' = [wr EXCEPT ![r] = NewFrame(DEFAULT_RATE_LIMIT_CONFIG)]
                /\ pc' = [pc EXCEPT ![r] = "wr_loop"]
                /\ obs' = [obs EXCEPT ![r].phases = Append(@, "generate_description")]
    /\ UNCHANGED endpointVars
    /\ UNCHANGED <<body, selectedTags, resp, tagsTable, historyTable,
                   outputTable, client, isInitialized, clientInitialized, envApiKey, served>>

\* what generateImageDescription returns once withRetry has settled
DescriptionOf(frame, promptLen) ==
    IF frame.outcome = "returned" /\ frame.value = "content"
    THEN [kind |-> "generated", len |-> GeneratedDescriptionLen]
    ELSE [kind |-> "fallback", len |-> FallbackDescriptionLen + promptLen]

\* chatHelper after withRetry, generateImageDescription's return or catch,
\* kram-pattern.ts 232-240
DescriptionSettled(r) ==
    /\ pc[r] = "wr_end"
    /\ kram[r].phase = "description_generation"
    /\ LET description == DescriptionOf(wr[r], body[r].prompt.len)
       IN  IF description.kind = "threw"
           THEN /\ KramThrows(r, KramPatternError("DESCRIPTION_GENERATION_ERROR",
                                                  "description_generation", ""))
                /\ obs' = [obs EXCEPT ![r].extFailed = @ \cup {"description_generation"},
                                      ![r].upstream = wr[r].thrown.msg]
           ELSE /\ kram' = [kram EXCEPT ![r].description = description]
                /\ pc' = [pc EXCEPT ![r] = AfterDescription]
                /\ resp' = resp
                /\ obs' = [obs EXCEPT
                      ![r].completed = @ \cup {"generate_description"},
                      ![r].extFailed = IF wr[r].outcome = "threw"
                                       THEN @ \cup {"description_generation"} ELSE @,
                      ![r].upstream = IF wr[r].outcome = "threw" THEN wr[r].thrown.msg ELSE @]
    /\ wr' = [wr EXCEPT ![r] = NoFrame]
    /\ UNCHANGED endpointVars
    /\ UNCHANGED <<body, selectedTags, tagsTable, historyTable,
                   outputTable, client, isInitialized, clientInitialized, envApiKey, served>>

\* kram-pattern.ts 246-255, generateOutputTags, chatHelper up to its withRetry
TagsStart(r) ==
    /\ pc[r] = "tags"
    /\ LET checked == ValidateMessage(TagsMessageLen(body[r].prompt.len,
                                                     kram[r].description.len,
                                                     selectedTags[r]))
       IN  IF ~checked.valid \/ ~ClientReady
           THEN /\ kram' = [kram EXCEPT ![r].phase = "tag_generation",
                                        ![r].outputTags = "fallback"]
                /\ pc' = [pc EXCEPT ![r] = AfterTags]
                /\ wr' = wr
                /\ obs' = [obs EXCEPT ![r].phases = Append(@, "generate_tags"),
                                      ![r].completed = @ \cup {"generate_tags"}]
           ELSE /\ kram' = [kram EXCEPT ![r].phase = "tag_generation"]
                /\ wr' = [wr EXCEPT ![r] = NewFrame(DEFAULT_RATE_LIMIT_CONFIG)]
                /\ pc' = [pc EXCEPT ![r] = "wr_loop"]
                /\ obs' = [obs EXCEPT ![r].phases = Append(@, "generate_tags")]
    /\ UNCHANGED endpointVars
    /\ UNCHANGED <<body, selectedTags, resp, tagsTable, historyTable,
                   outputTable, client, isInitialized, clientInitialized, envApiKey, served>>

\* what generateOutputTags returns once withRetry has settled; cleanedOk is
\* whether the cleaned response keeps at least 3 characters
OutputTagsOf(frame, cleanedOk) ==
    IF frame.outcome = "returned" /\ frame.value = "content" /\ cleanedOk
    THEN "generated"
    ELSE "fallback"

\* chatHelper after withRetry, generateOutputTags's return or catch,
\* kram-pattern.ts 256-264
TagsSettled(r) ==
    /\ pc[r] = "wr_end"
    /\ kram[r].phase = "tag_generation"
    /\ \E cleanedOk \in BOOLEAN :
         LET outputTags == OutputTagsOf(wr[r], cleanedOk)
         IN  IF outputTags = "threw"
             THEN /\ KramThrows(r, KramPatternError("TAG_GENERATION_ERROR",
                                                    "tag_generation", ""))
                  /\ obs' = [obs EXCEPT ![r].extFailed = @ \cup {"tag_generation"},
                                        ![r].upstream = wr[r].thrown.msg]
             ELSE /\ kram' = [kram EXCEPT ![r].outputTags = outputTags]
                  /\ pc' = [pc EXCEPT ![r] = AfterTags]
                  /\ resp' = resp
                  /\ obs' = [obs EXCEPT
                        ![r].completed = @ \cup {"generate_tags"},
                        ![r].extFailed = IF wr[r].outcome = "threw"
                                         THEN @ \cup {"tag_generation"} ELSE @,
                        ![r].upstream = IF wr[r].outcome = "threw" THEN wr[r].thrown.msg ELSE @]
    /\ wr' = [wr EXCEPT ![r] = NoFrame]
    /\ UNCHANGED endpointVars
    /\ UNCHANGED <<body, selectedTags, tagsTable, historyTable,
                   outputTable, client, isInitialized, clientInitialized, envApiKey, served>>

-----------------------------------------------------------------------------
(* Persistence: route.ts 295-363.  A row keeps its keys; `by` is the request *)
(* that wrote it (observation only).                                        *)

\* ids the database gives new rows
NewHistoryId == Cardinality(historyTable) + 1
NewOutputId == Cardinality(outputTable) + 1

\* tags_id: selectedTags.length > 0 ? selectedTags[0].id : null
TagsIdOfLast(tags) == IF Len(tags) > 0 THEN tags[Len(tags)].id ELSE "null"
TagsIdOf(tags) == IF Len(tags) > 0 THEN tags[1].id ELSE "null"

\* history_tags_id_fkey, output_generate_history_id_fkey
HistoryFkOk(tags_id) == tags_id = "null" \/ \E t \in tagsTable : t.id = tags_id
OutputFkOk(history_id) == \E h \in historyTable : h.id = history_id

\* prisma.history.create is issued when generateKramPattern has returned
CreateHistoryIssued(r) ==
    /\ pc[r] = "create_history"
    /\ pc' = [pc EXCEPT ![r] = "history_await"]
    /\ obs' = [obs EXCEPT ![r].phases = Append(@, "persist"), ![r].writes = @ + 1]
    /\ UNCHANGED endpointVars
    /\ UNCHANGED <<wr, body, selectedTags, kram, resp, tagsTable, historyTable,
                   outputTable, client, isInitialized, clientInitialized, envApiKey, served>>

\* history.create resolves; outputGenerate.create is issued
CreateHistoryReturns(r) ==
    /\ pc[r] = "history_await"
    /\ HistoryFkOk(TagsIdOf(selectedTags[r]))
    /\ historyTable' = historyTable \cup
         {[id |-> NewHistoryId, tags_id |-> TagsIdOf(selectedTags[r]),
           by |-> obs[r].reqNo, create_at |-> NewHistoryId]}
    /\ kram' = [kram EXCEPT ![r].historyRecord = NewHistoryId]
    /\ pc' = [pc EXCEPT ![r] = "output_await"]
    /\ obs' = [obs EXCEPT ![r].writes = @ + 1]
    /\ UNCHANGED endpointVars
    /\ UNCHANGED <<wr, body, selectedTags, resp, tagsTable,
                   outputTable, client, isInitialized, clientInitialized, envApiKey, served>>

\* history.create rejects: the outer catch
CreateHistoryFails(r) ==
    /\ pc[r] = "history_await"
    /\ Respond(r, StatusForError(MSG_DB), 0, {})
    /\ UNCHANGED endpointVars
    /\ UNCHANGED <<wr, body, selectedTags, kram, obs, tagsTable, historyTable,
                   outputTable, client, isInitialized, clientInitialized, envApiKey, served>>

\* responseData.history_id: historyRecord.id
ResponseHistoryIdFresh(r) == NewHistoryId
ResponseHistoryId(r) == kram[r].historyRecord

\* data.history_id of outputGenerate.create: historyRecord.id
OutputHistoryIdFirst(r) == 1
OutputHistoryId(r) == kram[r].historyRecord

\* outputGenerate.create resolves; the 201 response
CreateOutputReturns(r) ==
    /\ pc[r] = "output_await"
    /\ OutputFkOk(OutputHistoryId(r))
    /\ outputTable' = outputTable \cup
         {[id |-> NewOutputId, history_id |-> OutputHistoryId(r),
           by |-> obs[r].reqNo]}
    /\ Respond(r, 201, ResponseHistoryId(r), {NewOutputId})
    /\ obs' = [obs EXCEPT ![r].completed = @ \cup {"persist"}]
    /\ UNCHANGED endpointVars
    /\ UNCHANGED <<wr, body, selectedTags, kram, tagsTable, historyTable,
                   client, isInitialized, clientInitialized, envApiKey, served>>

\* outputGenerate.create rejects: the outer catch
CreateOutputFails(r) ==
    /\ pc[r] = "output_await"
    /\ Respond(r, StatusForError(MSG_DB), 0, {})
    /\ UNCHANGED endpointVars
    /\ UNCHANGED <<wr, body, selectedTags, kram, obs, tagsTable, historyTable,
                   outputTable, client, isInitialized, clientInitialized, envApiKey, served>>

-----------------------------------------------------------------------------
(* JavaScript strings and numbers as the gallery and tag handlers use them *)

UpperLetters == "ABCDEFGHIJKLMNOPQRSTUVWXYZ"
LowerLetters == "abcdefghijklmnopqrstuvwxyz"
DecimalDigits == "0123456789"

\* the 1-based position of character c in string s, 0 when it is not there
IndexIn(s, c) ==
    IF \E i \in 1..Len(s) : CharAt(s, i) = c
    THEN CHOOSE i \in 1..Len(s) : CharAt(s, i) = c
    ELSE 0

\* the lower-case letter of each upper-case ASCII letter
LowerOf ==
    [c \in {CharAt(UpperLetters, i) : i \in 1..Len(UpperLetters)} |->
        CharAt(LowerLetters, IndexIn(UpperLetters, c))]

\* String.prototype.toLowerCase, and the case folding of Prisma's
\* mode: 'insensitive', on ASCII letters
RECURSIVE Lower(_)
Lower(s) ==
    IF s = "" THEN ""
    ELSE LET c == CharAt(s, 1)
         IN  (IF c \in DOMAIN LowerOf THEN LowerOf[c] ELSE c) \o Lower(SubSeq(s, 2, Len(s)))

IsSpace(c) == c \in {" ", "\t", "\n"}

\* String.prototype.trim
RECURSIVE Trim(_)
Trim(s) ==
    IF s = "" THEN ""
    ELSE IF IsSpace(CharAt(s, 1)) THEN Trim(SubSeq(s, 2, Len(s)))
    ELSE IF IsSpace(CharAt(s, Len(s))) THEN Trim(SubSeq(s, 1, Len(s) - 1))
    ELSE s

\* a JavaScript number: an integer or NaN
Num(n) == [nan |-> FALSE, n |-> n]
NaN == [nan |-> TRUE, n |-> 0]

\* the digits of s from position i on, read onto acc
RECURSIVE ParseDigits(_, _, _)
ParseDigits(s, i, acc) ==
    IF i > Len(s) \/ IndexIn(DecimalDigits, CharAt(s, i)) = 0 THEN acc
    ELSE ParseDigits(s, i + 1, acc * 10 + (IndexIn(DecimalDigits, CharAt(s, i)) - 1))

\* parseInt(s): leading white space, a sign, then digits up to the first
\* character that is not a digit; NaN when there is no digit
ParseInt(s) ==
    LET t == Trim(s)
        signed == t # "" /\ CharAt(t, 1) \in {"-", "+"}
        first == IF signed THEN 2 ELSE 1
    IN  IF first > Len(t) \/ IndexIn(DecimalDigits, CharAt(t, first)) = 0 THEN NaN
        ELSE Num((IF signed /\ CharAt(t, 1) = "-" THEN 0 - 1 ELSE 1) * ParseDigits(t, first, 0))

\* Math.max, Math.min (NaN when an argument is NaN) and a || b on numbers
MathMax(a, b) == IF a.nan \/ b.nan THEN NaN ELSE IF a.n >= b.n THEN a ELSE b
MathMin(a, b) == IF a.nan \/ b.nan THEN NaN ELSE IF a.n <= b.n THEN a ELSE b
OrElse(a, b) == IF a.nan \/ a.n = 0 THEN b ELSE a

\* Math.ceil(a / b) for a >= 0, b > 0
FloorDiv(a, b) == a \div b
CeilDiv(a, b) == (a + b - 1) \div b

\* a query parameter: searchParams.get(name) is null when it is not present
Param(value) == [present |-> TRUE, value |-> value]
NoParam == [present |-> FALSE, value |-> ""]

\* searchParams.get(name) || fallback
GetOr(param, fallback) == IF ~param.present \/ param.value = "" THEN fallback ELSE param.value

-----------------------------------------------------------------------------
(* GET /api/v1/kram/gallery, in its two revisions: "plain" (one pass, no    *)
(* retry) and "retry" (health check and retry loop around the transaction)  *)

\* a row of table "history" as the gallery reads it: create_at is the order
\* of creation, promptRank the place of prompt_message in collation order,
\* words the lower-case words of the text the search looks into
GalleryRow(i) ==
    [id |-> i, tags_id |-> IF i % 3 = 0 THEN ID_A ELSE "null", by |-> 0,
     create_at |-> (i * 11) % 37, promptRank |-> (i * 7) % 31,
     prompt_message |-> IF i % 2 = 0 THEN "deep indigo spiral" ELSE "madder root"]

GalleryStore(n) == {GalleryRow(i) : i \in 1..n}

\* the columns of table "history"
HistoryColumns == {"id", "prompt_message", "tags_id", "create_at"}

\* whereClause: contains, mode: 'insensitive'
Where(search) ==
    {h \in historyTable :
        search = "" \/ Includes(Lower(h.prompt_message), Lower(search))}

SortKey(row, sortBy) ==
    IF sortBy = "prompt_message" THEN row.promptRank
    ELSE IF sortBy = "id" THEN row.id
    ELSE row.create_at

\* the rows in ascending order of key, a function on the rows with distinct
\* values
RECURSIVE Ascending(_, _)
Ascending(rows, key) ==
    IF rows = {} THEN <<>>
    ELSE LET first == CHOOSE r \in rows : \A q \in rows : key[r] <= key[q]
         IN  <<first>> \o Ascending(rows \ {first}, key)

\* orderBy: { [sortBy]: sortOrder } over rows whose keys differ
OrderBy(rows, sortBy, sortOrder) ==
    Ascending(rows, [r \in rows |->
                       IF sortOrder = "asc" THEN SortKey(r, sortBy)
                       ELSE 0 - SortKey(r, sortBy)])

\* skip, take
SkipTake(seq, skip, take) ==
    IF skip >= Len(seq) THEN <<>>
    ELSE SubSeq(seq, skip + 1, Min(skip + take, Len(seq)))

\* errors a database call rejects with: Prisma's code and the message
DbError(code, message) == [code |-> code, message |-> message]
NoDbError == DbError("", "")
DB_CHECK_FAILED == DbError("", "Database connection failed")
DB_UNREACHABLE  == DbError("P1001", "Can't reach database server at db:5432")
DB_POOL_TIMEOUT == DbError("", "Connection pool timeout")
DB_EMPTY        == DbError("", "Empty response from the query engine")
DB_REFUSED      == DbError("", "connect ECONNREFUSED 127.0.0.1:5432")
DB_NO_TABLE     == DbError("P2021", "The table public.history does not exist")
DB_VALIDATION   == DbError("", "Invalid prisma.history.findMany() invocation")

QueryErrors == {DB_UNREACHABLE, DB_POOL_TIMEOUT, DB_EMPTY, DB_REFUSED, DB_NO_TABLE}

\* handleDatabaseError(error).status
HandleDatabaseError(error) ==
    IF error.code = "P1001" THEN 503
    ELSE IF error.code = "P2002" THEN 409
    ELSE IF error.code = "P2025" THEN 404
    ELSE IF Includes(error.message, "Empty response") THEN 503
    ELSE IF Includes(error.message, "Connection pool timeout") THEN 503
    ELSE 500

GalleryMaxRetries == 3
RetryDelay == 1000
MaxLimit == 100

\* the inner catch's test of the message before it throws the error again
ConnectionRelated(errorMessage) ==
    \/ Includes(errorMessage, "Empty response")
    \/ Includes(errorMessage, "Connection")
    \/ Includes(errorMessage, "timeout")
    \/ Includes(errorMessage, "ECONNREFUSED")

\* the delay before the next attempt, connectionAttempts already incremented
GalleryRetryDelay(connectionAttempts) == RetryDelay * Pow2(connectionAttempts - 1)

\* the query parameters of a request
GalleryQuery(search, page, limit, sortBy, sortOrder) ==
    [search |-> search, page |-> page, limit |-> limit, sortBy |-> sortBy,
     sortOrder |-> sortOrder]

PageParams == {NoParam, Param("abc"), Param("0"), Param("-2"), Param("2"), Param("3")}
LimitParams == {NoParam, Param("abc"), Param("0"), Param("-5"), Param("10"), Param("101")}
SortByParams == {NoParam, Param("prompt_message"), Param("id"), Param("password")}
SortOrderParams == {NoParam, Param("asc"), Param("sideways")}

\* requests that vary the paging parameters, and requests that vary the
\* ordering and the search
GalleryQueries ==
    {GalleryQuery(NoParam, p, l, NoParam, NoParam) : p \in PageParams, l \in LimitParams}
    \cup {GalleryQuery(s, p, Param("10"), b, o) :
              s \in {NoParam, Param(" Indigo")}, p \in {NoParam, Param("2")},
              b \in SortByParams, o \in SortOrderParams}

\* page, limit, sortBy, sortOrder as each revision reads them
ParsePagePlain(query) == MathMax(Num(1), ParseInt(GetOr(query.page, "1")))
ParsePage(rev, query) ==
    IF rev = "plain" THEN ParsePagePlain(query)
    ELSE MathMax(Num(1), OrElse(ParseInt(GetOr(query.page, "1")), Num(1)))

ParseLimit(rev, query) ==
    IF rev = "plain"
    THEN MathMin(Num(MaxLimit), MathMax(Num(1), ParseInt(GetOr(query.limit, "10"))))
    ELSE MathMin(Num(MaxLimit),
                 MathMax(Num(1), OrElse(ParseInt(GetOr(query.limit, "10")), Num(10))))

ParseSortByPlain(query) == GetOr(query.sortBy, "create_at")
ParseSortBy(rev, query) ==
    IF rev = "plain" THEN ParseSortByPlain(query)
    ELSE IF GetOr(query.sortBy, "") \in {"create_at", "prompt_message"}
    THEN query.sortBy.value ELSE "create_at"

ParseSortOrder(rev, query) ==
    IF rev = "plain" THEN GetOr(query.sortOrder, "desc")
    ELSE IF GetOr(query.sortOrder, "") \in {"asc", "desc"}
    THEN query.sortOrder.value ELSE "desc"

ParseSearch(rev, query) ==
    IF rev = "plain" THEN GetOr(query.search, "")
    ELSE IF query.search.present THEN Trim(query.search.value) ELSE ""

NoPagination ==
    [currentPage |-> 0, totalPages |-> 0, totalItems |-> 0, hasNext |-> FALSE,
     hasPrev |-> FALSE, limit |-> 0]

\* connectionAttempts: the retry loop's counter; checks: health checks made;
\* executed: times the query was begun; delays: the delays waited so far;
\* failures: the errors thrown so far; counted: the rows history.count saw;
\* orderBy: the orderBy of the findMany issued last
NoGal ==
    [pc |-> "off", rev |-> "", query |-> GalleryQuery(NoParam, NoParam, NoParam, NoParam, NoParam),
     search |-> "", page |-> Num(1), limit |-> Num(10), sortBy |-> "", sortOrder |-> "",
     connectionAttempts |-> 0, checks |-> 0, executed |-> 0, delays |-> <<>>,
     failures |-> <<>>, orderBy |-> <<>>, totalItems |-> 0, counted |-> {},
     status |-> 0, data |-> <<>>, pagination |-> NoPagination, respondedIn |-> ""]

genVars == <<pc, wr, body, selectedTags, kram, resp, obs, tagsTable, historyTable,
             outputTable, client, isInitialized, clientInitialized, envApiKey, served>>

GalleryRespond(status, data, pagination) ==
    [gal EXCEPT !.pc = "done", !.status = status, !.data = data, !.pagination = pagination]

\* the arguments findMany is called with are ones Prisma accepts
FindManyArgsOk(g) ==
    /\ ~g.page.nan /\ ~g.limit.nan
    /\ g.sortBy \in HistoryColumns
    /\ g.sortOrder \in {"asc", "desc"}

\* a request arrives.  The plain revision reads the parameters and issues
\* history.count; the retry revision enters its loop and checks the
\* connection first.
GalleryGet ==
    /\ gal.pc = "idle"
    /\ \E rev \in {"plain", "retry"}, query \in GalleryQueries :
         gal' = IF rev = "plain"
                THEN [gal EXCEPT !.pc = "count", !.rev = rev, !.query = query,
                                 !.search = ParseSearch(rev, query),
                                 !.page = ParsePage(rev, query),
                                 !.limit = ParseLimit(rev, query),
                                 !.sortBy = ParseSortBy(rev, query),
                                 !.sortOrder = ParseSortOrder(rev, query),
                                 !.executed = 1]
                ELSE [gal EXCEPT !.pc = "health", !.rev = rev, !.query = query,
                                 !.checks = 1]
    /\ UNCHANGED <<genVars, bat, val, item, post>>

\* requests served while generation requests write rows: no search, the
\* default order
GalleryQueriesBeside ==
    {GalleryQuery(NoParam, p, NoParam, NoParam, NoParam) : p \in {NoParam, Param("2")}}

\* a request arrives while a generation request may be running
GalleryGetBeside ==
    /\ gal.pc = "idle"
    /\ \E rev \in {"plain", "retry"}, query \in GalleryQueriesBeside :
         gal' = IF rev = "plain"
                THEN [gal EXCEPT !.pc = "count", !.rev = rev, !.query = query,
                                 !.search = ParseSearch(rev, query),
                                 !.page = ParsePage(rev, query),
                                 !.limit = ParseLimit(rev, query),
                                 !.sortBy = ParseSortBy(rev, query),
                                 !.sortOrder = ParseSortOrder(rev, query),
                                 !.executed = 1]
                ELSE [gal EXCEPT !.pc = "health", !.rev = rev, !.query = query,
                                 !.checks = 1]
    /\ UNCHANGED <<genVars, bat, val, item, post>>

\* the test of the inner catch of performDatabaseOperation that rethrows to
\* the retry loop whatever the error says
ShouldRetryAnyError(connectionAttempts, errorMessage) ==
    connectionAttempts < GalleryMaxRetries - 1

\* the test of the inner catch of performDatabaseOperation: the error is
\* rethrown to the retry loop
ShouldRetry(connectionAttempts, errorMessage) ==
    /\ connectionAttempts < GalleryMaxRetries - 1
    /\ ConnectionRelated(errorMessage)

\* what the handler does with an error thrown in performDatabaseOperation (the
\* retry revision: inner catch, then the catch of the loop) or in the try
\* block (the plain revision)
GalleryCatch(error) ==
    IF gal.rev = "plain"
    THEN [GalleryRespond(500, <<>>, NoPagination) EXCEPT !.respondedIn = "catch"]
    ELSE IF ShouldRetry(gal.connectionAttempts, error.message)
    THEN IF gal.connectionAttempts + 1 >= GalleryMaxRetries
         THEN [GalleryRespond(HandleDatabaseError(error), <<>>, NoPagination)
                 EXCEPT !.connectionAttempts = @ + 1,
                        !.respondedIn = "loop_catch"]
         ELSE [gal EXCEPT !.pc = "delay",
                          !.connectionAttempts = @ + 1,
                          !.delays = Append(@, GalleryRetryDelay(gal.connectionAttempts + 1))]
    ELSE [GalleryRespond(HandleDatabaseError(error), <<>>, NoPagination)
            EXCEPT !.respondedIn = "inner_catch"]

\* checkDatabaseConnection returns true: the parameters are read and the
\* transaction begins with history.count
CheckDatabaseConnectionTrue ==
    /\ gal.pc = "health"
    /\ gal' = [gal EXCEPT !.pc = "count",
                          !.search = ParseSearch(gal.rev, gal.query),
                          !.page = ParsePage(gal.rev, gal.query),
                          !.limit = ParseLimit(gal.rev, gal.query),
                          !.sortBy = ParseSortBy(gal.rev, gal.query),
                          !.sortOrder = ParseSortOrder(gal.rev, gal.query),
                          !.executed = @ + 1]
    /\ UNCHANGED <<genVars, bat, val, item, post>>

\* checkDatabaseConnection returns false: throw new Error('Database connection failed')
CheckDatabaseConnectionFalse ==
    /\ gal.pc = "health"
    /\ gal' = [GalleryCatch(DB_CHECK_FAILED) EXCEPT !.failures = Append(@, DB_CHECK_FAILED)]
    /\ UNCHANGED <<genVars, bat, val, item, post>>

\* history.count resolves; history.findMany is issued
HistoryCountReturns ==
    /\ gal.pc = "count"
    /\ gal' = [gal EXCEPT !.pc = "find",
                          !.totalItems = Cardinality(Where(gal.search)),
                          !.counted = Where(gal.search),
                          !.orderBy = <<gal.sortBy, gal.sortOrder>>]
    /\ UNCHANGED <<genVars, bat, val, item, post>>

HistoryCountFails ==
    /\ gal.pc = "count"
    /\ \E error \in QueryErrors :
         gal' = [GalleryCatch(error) EXCEPT !.failures = Append(@, error)]
    /\ UNCHANGED <<genVars, bat, val, item, post>>

\* the rows history.findMany reads.  The plain revision issues it after
\* history.count with no transaction: it reads the table as it is now.  The
\* retry revision issues both in prisma.$transaction with the isolation
\* level of the database: the table as it is now (read committed) or as
\* history.count saw it (repeatable read and above).
FindManyReads(g) ==
    IF g.rev = "plain" THEN {Where(g.search)} ELSE {Where(g.search), g.counted}

\* history.findMany resolves: the 200 response
HistoryFindManyReturns ==
    /\ gal.pc = "find"
    /\ FindManyArgsOk(gal)
    /\ \E rows \in FindManyReads(gal) :
       LET limit == gal.limit.n
           page == gal.page.n
           skip == (page - 1) * limit
           historyRecords ==
               SkipTake(OrderBy(rows, gal.sortBy, gal.sortOrder), skip, limit)
           totalPages == CeilDiv(gal.totalItems, limit)
       IN  gal' = [GalleryRespond(200,
                     [i \in 1..Len(historyRecords) |-> historyRecords[i].id],
                     [currentPage |-> page, totalPages |-> totalPages,
                      totalItems |-> gal.totalItems, hasNext |-> page < totalPages,
                      hasPrev |-> page > 1, limit |-> limit])
                     EXCEPT !.respondedIn = "try"]
    /\ UNCHANGED <<genVars, bat, val, item, post>>

\* history.findMany rejects: the database fails, or Prisma refuses the
\* arguments
HistoryFindManyFails ==
    /\ gal.pc = "find"
    /\ \E error \in IF FindManyArgsOk(gal) THEN QueryErrors ELSE {DB_VALIDATION} :
         gal' = [GalleryCatch(error) EXCEPT !.failures = Append(@, error)]
    /\ UNCHANGED <<genVars, bat, val, item, post>>

\* the delay of the retry loop has elapsed: the test of the while loop, then
\* the next attempt or the response after the loop
GalleryRetryDelayElapsed ==
    /\ gal.pc = "delay"
    /\ gal' = IF gal.connectionAttempts < GalleryMaxRetries
              THEN [gal EXCEPT !.pc = "health", !.checks = @ + 1]
              ELSE [GalleryRespond(500, <<>>, NoPagination)
                      EXCEPT !.respondedIn = "after_loop"]
    /\ UNCHANGED <<genVars, bat, val, item, post>>

-----------------------------------------------------------------------------
(* GET /api/v1/kram/gallery/[id] *)

HID_1   == "b1b1b1b1-0000-4000-8000-00000000000a"
HID_1U  == "B1B1B1B1-0000-4000-8000-00000000000A"
HID_2   == "b2b2b2b2-0000-4000-9000-00000000000b"
HID_3   == "b3b3b3b3-0000-4000-a000-00000000000c"

\* rows of "history" and of "output_generate" the endpoint is read on
ItemRow(id, tags_id) == [id |-> id, tags_id |-> tags_id, by |-> 0]
ItemRows == {ItemRow(HID_1, ID_A), ItemRow(HID_2, "null"), ItemRow(HID_3, ID_C)}
ItemOutput(id, history_id) == [id |-> id, history_id |-> history_id, by |-> 0]
ItemOutputs == {ItemOutput(1, HID_1), ItemOutput(2, HID_1), ItemOutput(3, HID_2)}

\* the ids requested: of a row, of a row in upper case, of no row, and
\* strings that are not of UUID shape
ItemIds == {HID_1, HID_2, HID_3, HID_1U, ID_ABSENT, ID_V0, ID_WORD, ""}

\* where: { id: id }, as any string for the mutated lookup
FindUniqueAnyCase(id) == {h \in historyTable : Lower(h.id) = Lower(id)}
FindUnique(id) == {h \in historyTable : h.id = id}

\* include: { tag: true }
TagOf(historyRecord) ==
    IF \E t \in tagsTable : t.id = historyRecord.tags_id
    THEN CHOOSE t \in tagsTable : t.id = historyRecord.tags_id
    ELSE "null"

\* include: { output_logs: { orderBy: { id: 'asc' } } }, the ids of the rows
OutputLogsOf(historyRecord) ==
    LET logs == {o \in outputTable : o.history_id = historyRecord.id}
        sorted == Ascending(logs, [o \in logs |-> o.id])
    IN  [i \in 1..Len(sorted) |-> sorted[i].id]

\* transformedData
TransformedData(historyRecord) ==
    [id |-> historyRecord.id, tags_id |-> historyRecord.tags_id,
     tag |-> TagOf(historyRecord), output_logs |-> OutputLogsOf(historyRecord)]

NoItemData == [id |-> "", tags_id |-> "null", tag |-> "null", output_logs |-> <<>>]

\* queries: calls of history.findUnique; rejected: the call rejected
NoItem == [pc |-> "off", id |-> "", queries |-> 0, rejected |-> FALSE, status |-> 0,
           data |-> NoItemData]

ItemRespond(status, data) == [item EXCEPT !.pc = "done", !.status = status, !.data = data]

\* a request arrives: the UUID test, then history.findUnique is issued
ItemGet ==
    /\ item.pc = "idle"
    /\ \E id \in ItemIds :
         item' = IF ~UuidRegexTest(id)
                 THEN [ItemRespond(400, NoItemData) EXCEPT !.id = id]
                 ELSE [item EXCEPT !.pc = "find", !.id = id, !.queries = @ + 1]
    /\ UNCHANGED <<genVars, bat, val, gal, post>>

\* history.findUnique resolves with the row or with null
HistoryFindUniqueReturns ==
    /\ item.pc = "find"
    /\ LET found == FindUnique(item.id)
       IN  item' = IF found = {} THEN ItemRespond(404, NoItemData)
                   ELSE ItemRespond(200, TransformedData(CHOOSE h \in found : TRUE))
    /\ UNCHANGED <<genVars, bat, val, gal, post>>

\* history.findUnique rejects: the catch block
HistoryFindUniqueFails ==
    /\ item.pc = "find"
    /\ item' = [ItemRespond(500, NoItemData) EXCEPT !.rejected = TRUE]
    /\ UNCHANGED <<genVars, bat, val, gal, post>>

-----------------------------------------------------------------------------
(* POST /api/v1/kram/tags *)

\* the handler runs once per request; two requests may be in progress at a
\* time, and each of the two is followed by at most MaxPosts - 1 more
Posters == {"post1", "post2"}
MaxPosts == 1

\* body.name of the requests; image_url and description are present
PostNames == {"Indigo", "indigo ", "kram blue", ""}

\* the id the database gives the next row of "tags"
NewTagId == "0000000" \o CharAt(DecimalDigits, Cardinality(tagsTable) + 1)
                \o "-0000-4000-8000-000000000000"

\* where: { name: { equals: name, mode: 'insensitive' } }
FindFirst(name) == {t \in tagsTable : Lower(t.name) = Lower(name)}

\* posts: requests begun; namesAtCheck: the stored names when findFirst
\* returned; created: the name of the row created
NoPoster == [pc |-> "off", name |-> "", posts |-> 0, namesAtCheck |-> {},
             created |-> "null", status |-> 0]
NoPost == [p \in Posters |-> NoPoster]

PostRespond(p, status) == [post EXCEPT ![p].pc = "done", ![p].status = status]

\* a request arrives: the required fields, then tags.findFirst is issued
TagsPost(p) ==
    /\ post[p].pc \in {"idle", "done"}
    /\ post[p].posts < MaxPosts
    /\ \E name \in PostNames :
         post' = IF name = ""
                 THEN [post EXCEPT ![p] = [NoPoster EXCEPT !.pc = "done", !.name = name,
                                              !.posts = post[p].posts + 1, !.status = 400]]
                 ELSE [post EXCEPT ![p] = [NoPoster EXCEPT !.pc = "find", !.name = name,
                                              !.posts = post[p].posts + 1]]
    /\ UNCHANGED <<genVars, bat, val, gal, item>>

\* tags.findFirst resolves: 409 when a row was found, else tags.create is
\* issued
TagsFindFirstReturns(p) ==
    /\ post[p].pc = "find"
    /\ LET existingTag == FindFirst(post[p].name)
           seen == [post EXCEPT ![p].namesAtCheck = {t.name : t \in tagsTable}]
       IN  post' = IF existingTag # {}
                   THEN [seen EXCEPT ![p].pc = "done", ![p].status = 409]
                   ELSE [seen EXCEPT ![p].pc = "create"]
    /\ UNCHANGED <<genVars, bat, val, gal, item>>

\* tags.create resolves: table "tags" has no constraint but its primary key,
\* so the row is inserted; 201
TagsCreateReturns(p) ==
    /\ post[p].pc = "create"
    /\ tagsTable' = tagsTable \cup {Tag(NewTagId, Trim(post[p].name), 40, 45, FALSE)}
    /\ post' = [PostRespond(p, 201) EXCEPT ![p].created = Trim(post[p].name)]
    /\ UNCHANGED <<pc, wr, body, selectedTags, kram, resp, obs, historyTable,
                   outputTable, client, isInitialized, clientInitialized, envApiKey, served>>
    /\ UNCHANGED <<val, gal, item, bat>>

\* tags.findFirst or tags.create rejects: the catch block
TagsQueryFails(p) ==
    /\ post[p].pc \in {"find", "create"}
    /\ post' = PostRespond(p, 500)
    /\ UNCHANGED <<genVars, bat, val, gal, item>>

-----------------------------------------------------------------------------
(* generateImageBatch *)

DefaultMaxConcurrent == 2
DefaultDelayBetweenBatches == 3000

\* the observations of a run count up to MaxCounted
MaxCounted == 6

\* batchOptions: a field is given or undefined
Given(n) == [given |-> TRUE, n |-> n]
Undefined == [given |-> FALSE, n |-> 0]
OrDefault(option, default) == IF option.given THEN option.n ELSE default

\* the prompts of the calls: lists of 0 to 4, with a prompt that occurs twice
BatchPromptLists ==
    {<<>>, <<"kram a">>, <<"kram a", "kram b">>, <<"kram a", "kram b", "kram a">>,
     <<"kram a", "kram b", "kram c", "kram d">>}
MaxConcurrentOptions == {Undefined, Given(0), Given(1), Given(2), Given(3)}
DelayOptions == {Undefined, Given(0)}

\* prompts.slice(i, i + maxConcurrent), as the indices from 1 of its entries
Slice(i, maxConcurrent, length) ==
    {k \in 1..length : i < k /\ k <= i + maxConcurrent}

\* the test before the delay: another batch follows
MoreBatchesInclusive(i, maxConcurrent, length) == i + maxConcurrent <= length
MoreBatches(i, maxConcurrent, length) == i + maxConcurrent < length

\* what the callback of batch.map resolves with for input k
BatchEntry(k, outcome) ==
    [success |-> outcome = "ok", result |-> outcome = "ok", error |-> outcome # "ok",
     prompt |-> bat.prompts[k], input |-> k]

\* the results of a batch as forEach pushes them: in settle order for the
\* mutated loop, in the order of the batch for Promise.allSettled
RECURSIVE EntriesOf(_)
EntriesOf(order) ==
    IF order = <<>> THEN <<>>
    ELSE <<BatchEntry(order[1], bat.outcome[order[1]])>> \o EntriesOf(Tail(order))

BatchResultsAsSettled(batch, settled) ==
    EntriesOf(SubSeq(settled, Len(settled) - Cardinality(batch) + 1, Len(settled)))
BatchResults(batch, settled) ==
    EntriesOf(Ascending(batch, [k \in batch |-> k]))

CountUp(n) == IF n < MaxCounted THEN n + 1 ELSE n

\* i: the loop variable; batch: the inputs of the batch in progress;
\* pending: those whose imageHelper call has not settled; settled: the inputs
\* whose call has, in the order they did; outcome: how the call of each input settled;
\* results: the array returned; batches, delays: batches begun and delays
\* waited, counted up to MaxCounted; starts: at the start of each batch, the
\* results pushed and the delays waited before it
NoBat ==
    [pc |-> "off", prompts |-> <<>>, maxConcurrent |-> 0, delayBetweenBatches |-> 0,
     i |-> 0, batch |-> {}, pending |-> {}, settled |-> <<>>,
     outcome |-> [k \in 1..4 |-> "none"], results |-> <<>>,
     batches |-> 0, delays |-> <<>>, starts |-> <<>>]

\* the call: the options are read with their defaults
GenerateImageBatch ==
    /\ bat.pc = "idle"
    /\ \E prompts \in BatchPromptLists, m \in MaxConcurrentOptions, w \in DelayOptions :
         bat' = [bat EXCEPT !.pc = "loop", !.prompts = prompts,
                            !.maxConcurrent = OrDefault(m, DefaultMaxConcurrent),
                            !.delayBetweenBatches = OrDefault(w, DefaultDelayBetweenBatches)]
    /\ UNCHANGED <<genVars, val, gal, item, post>>

\* the loop test; then the slice and batch.map, which begins the imageHelper
\* call of every input of the batch; or the return
BatchLoop ==
    /\ bat.pc = "loop"
    /\ bat' = IF bat.i < Len(bat.prompts)
              THEN LET batch == Slice(bat.i, bat.maxConcurrent, Len(bat.prompts))
                   IN  [bat EXCEPT !.pc = "await", !.batch = batch, !.pending = batch,
                                   !.batches = CountUp(@),
                                   !.starts = IF Len(@) < MaxCounted
                                              THEN Append(@, [results |-> Len(bat.results),
                                                              delays |-> Len(bat.delays),
                                                              i |-> bat.i])
                                              ELSE @]
              ELSE [bat EXCEPT !.pc = "returned"]
    /\ UNCHANGED <<genVars, val, gal, item, post>>

\* the imageHelper call of input k settles: it returns a result or throws
ImageHelperSettles ==
    /\ bat.pc = "await"
    /\ \E k \in bat.pending, outcome \in {"ok", "failed"} :
         bat' = [bat EXCEPT !.pending = @ \ {k}, !.settled = Append(@, k),
                            !.outcome[k] = outcome]
    /\ UNCHANGED <<genVars, val, gal, item, post>>

\* Promise.allSettled resolves; the results are pushed; then the delay, or
\* the next turn of the loop
BatchAllSettled ==
    /\ bat.pc = "await"
    /\ bat.pending = {}
    /\ LET pushed == [bat EXCEPT !.results = @ \o BatchResults(bat.batch, bat.settled),
                                 !.batch = {}]
       IN  bat' = IF MoreBatches(bat.i, bat.maxConcurrent, Len(bat.prompts))
                  THEN [pushed EXCEPT !.pc = "delay"]
                  ELSE [pushed EXCEPT !.pc = "loop", !.i = @ + bat.maxConcurrent]
    /\ UNCHANGED <<genVars, val, gal, item, post>>

\* setTimeout(resolve, delayBetweenBatches) fires; i += maxConcurrent
BatchDelayElapsed ==
    /\ bat.pc = "delay"
    /\ bat' = [bat EXCEPT !.pc = "loop", !.i = @ + bat.maxConcurrent,
                          !.delays = IF Len(@) < MaxCounted
                                     THEN Append(@, bat.delayBetweenBatches) ELSE @]
    /\ UNCHANGED <<genVars, val, gal, item, post>>

-----------------------------------------------------------------------------
(* validateKramRequest called on its own: val holds the argument and, once *)
(* the call has returned, the result                                        *)

P_OVER_BLANK == Prompt(901, TRUE, FALSE)

ValPrompts == {P_EMPTY, P_BLANK, P_OK, P_MAX, P_OVER, P_OVER_BLANK}

TAG_MALFORMED == Tag(ID_WORD, "Hill Ikat", 40, 45, FALSE)

ValTagLists ==
    {<<>>, <<TAG_A>>, <<TAG_A, TAG_C>>, <<TAG_MALFORMED>>,
     [i \in 1..(MaxTags + 1) |-> TAG_A]}

ValDalle ==
    {NoDalle,
     [present |-> TRUE, size |-> "1024x1792", quality |-> "hd", style |-> "natural"],
     [present |-> TRUE, size |-> "512x512", quality |-> "", style |-> ""],
     [present |-> TRUE, size |-> "", quality |-> "ultra", style |-> ""],
     [present |-> TRUE, size |-> "", quality |-> "", style |-> "neon"],
     [present |-> TRUE, size |-> "256x256", quality |-> "low", style |-> "flat"]}

ValMaxTokens == {0 - 5, 0, 1, 49, 50, 1000, 2000, 2001}

ValChat ==
    {NoChat,
     [present |-> TRUE, model |-> "gpt-4", hasMaxTokens |-> FALSE, max_tokens |-> 0],
     [present |-> TRUE, model |-> "davinci", hasMaxTokens |-> FALSE, max_tokens |-> 0]}
    \cup {[present |-> TRUE, model |-> m, hasMaxTokens |-> TRUE, max_tokens |-> t] :
            m \in {"", "davinci"}, t \in ValMaxTokens}

ValRequests ==
    {[prompt |-> p, hasTags |-> TRUE, tags |-> t, dalle_options |-> d, chat_options |-> c] :
        p \in ValPrompts, t \in ValTagLists, d \in ValDalle, c \in ValChat}
    \cup {[prompt |-> p, hasTags |-> FALSE, tags |-> <<>>, dalle_options |-> NoDalle,
           chat_options |-> NoChat] : p \in ValPrompts}


NoValResult == [valid |-> FALSE, errors |-> <<"not returned">>]
NoVal == [pc |-> "off", request |-> [prompt |-> P_EMPTY], result |-> NoValResult]

\* validateKramRequest(request) runs and returns; it writes nothing but its
\* own `errors`
ValidateKramRequestCall ==
    /\ val.pc = "called"
    /\ val' = [val EXCEPT !.pc = "returned", !.result = ValidateKramRequest(val.request)]
    /\ UNCHANGED <<pc, wr, body, selectedTags, kram, resp, obs, tagsTable, historyTable,
                   outputTable, client, isInitialized, clientInitialized, envApiKey, served,
                   gal, item, post, bat>>

-----------------------------------------------------------------------------
(* Specifications *)

InitCommon ==
    /\ wr = [p \in Procs |-> NoFrame]
    /\ body = [r \in Reqs |-> NoBody]
    /\ selectedTags = [r \in Reqs |-> <<>>]
    /\ kram = [p \in Procs |-> NoKram]
    /\ resp = [r \in Reqs |-> NoResp]
    /\ obs = [p \in Procs |-> NoObs]
    /\ tagsTable = {TAG_A, TAG_B, TAG_C}
    /\ historyTable = {}
    /\ outputTable = {}
    /\ client = "null"
    /\ isInitialized = FALSE
    /\ clientInitialized = FALSE
    /\ served = 0

\* no request is at the other endpoints
InitEndpoints ==
    /\ val = NoVal
    /\ gal = NoGal
    /\ item = NoItem
    /\ post = NoPost
    /\ bat = NoBat

\* the generation endpoint
Init ==
    /\ InitCommon
    /\ InitEndpoints
    /\ pc = [p \in Procs |-> IF p = Harness THEN "h_off" ELSE "idle"]
    /\ envApiKey \in BOOLEAN

\* the handler of the serial specification
Serial == {1}

Next ==
    \E r \in Serial :
        \/ RequestArrives(r)
        \/ EnsureClientInitialized(r)
        \/ InitializeClientDone(r)
        \/ InitializeClientFails(r)
        \/ RouteValidate(r)
        \/ FindTagsReturns(r)
        \/ FindTagsFails(r)
        \/ KramStart(r)
        \/ WithRetryInvoke(r)
        \/ WithRetryResolve(r)
        \/ WithRetryCatch(r)
        \/ WithRetryDelayElapsed(r)
        \/ ImageSettled(r)
        \/ DescriptionStart(r)
        \/ DescriptionSettled(r)
        \/ TagsStart(r)
        \/ TagsSettled(r)
        \/ CreateHistoryIssued(r)
        \/ CreateHistoryReturns(r)
        \/ CreateHistoryFails(r)
        \/ CreateOutputReturns(r)
        \/ CreateOutputFails(r)

Spec == Init /\ [][Next]_vars

\* withRetry on its own
InitRetry ==
    /\ InitCommon
    /\ InitEndpoints
    /\ pc = [p \in Procs |-> IF p = Harness THEN "h_idle" ELSE "off"]
    /\ envApiKey = TRUE

NextRetry ==
    \/ HarnessCall
    \/ WithRetryInvoke(Harness)
    \/ WithRetryResolve(Harness)
    \/ WithRetryCatch(Harness)
    \/ WithRetryDelayElapsed(Harness)
    \/ HarnessSettled

SpecRetry == InitRetry /\ [][NextRetry]_vars

\* the generation endpoint with every handler free to run beside the others,
\* while the external calls settle without rejecting
NextConcurrent ==
    \E r \in Reqs :
        \/ RequestArrivesBeside(r)
        \/ EnsureClientInitialized(r)
        \/ InitializeClientDone(r)
        \/ InitializeClientFails(r)
        \/ RouteValidate(r)
        \/ FindTagsReturns(r)
        \/ FindTagsFails(r)
        \/ KramStart(r)
        \/ WithRetryInvoke(r)
        \/ WithRetryResolve(r)
        \/ ImageSettled(r)
        \/ DescriptionStart(r)
        \/ DescriptionSettled(r)
        \/ TagsStart(r)
        \/ TagsSettled(r)
        \/ CreateHistoryIssued(r)
        \/ CreateHistoryReturns(r)
        \/ CreateHistoryFails(r)
        \/ CreateOutputReturns(r)
        \/ CreateOutputFails(r)

SpecConcurrent == Init /\ [][NextConcurrent]_vars

\* the stores under generation requests and tag creations, one of each at a
\* time, while the external calls settle without rejecting
StoreWriters == {"post1"}

InitStores ==
    /\ InitCommon
    /\ pc = [p \in Procs |-> IF p \in Serial THEN "idle"
                             ELSE IF p = Harness THEN "h_off" ELSE "off"]
    /\ envApiKey = TRUE
    /\ val = NoVal
    /\ gal = NoGal
    /\ item = NoItem
    /\ post = [p \in Posters |-> IF p \in StoreWriters THEN [NoPoster EXCEPT !.pc = "idle"]
                                 ELSE NoPoster]
    /\ bat = NoBat

NextStores ==
    \/ \E r \in Serial :
        \/ RequestArrivesBeside(r)
        \/ EnsureClientInitialized(r)
        \/ InitializeClientDone(r)
        \/ InitializeClientFails(r)
        \/ RouteValidate(r)
        \/ FindTagsReturns(r)
        \/ FindTagsFails(r)
        \/ KramStart(r)
        \/ WithRetryInvoke(r)
        \/ WithRetryResolve(r)
        \/ ImageSettled(r)
        \/ DescriptionStart(r)
        \/ DescriptionSettled(r)
        \/ TagsStart(r)
        \/ TagsSettled(r)
        \/ CreateHistoryIssued(r)
        \/ CreateHistoryReturns(r)
        \/ CreateHistoryFails(r)
        \/ CreateOutputReturns(r)
        \/ CreateOutputFails(r)
    \/ \E p \in StoreWriters :
        \/ TagsPost(p)
        \/ TagsFindFirstReturns(p)
        \/ TagsCreateReturns(p)
        \/ TagsQueryFails(p)

SpecStores == InitStores /\ [][NextStores]_vars

\* the gallery read while generation requests write, one of each at a time,
\* while the external calls settle without rejecting and the gallery's
\* database calls resolve
InitGalleryWrites ==
    /\ InitCommon
    /\ pc = [p \in Procs |-> IF p \in Serial THEN "idle"
                             ELSE IF p = Harness THEN "h_off" ELSE "off"]
    /\ envApiKey = TRUE
    /\ val = NoVal
    /\ gal = [NoGal EXCEPT !.pc = "idle"]
    /\ item = NoItem
    /\ post = NoPost
    /\ bat = NoBat

NextGalleryWrites ==
    \/ \E r \in Serial :
        \/ RequestArrivesBeside(r)
        \/ EnsureClientInitialized(r)
        \/ InitializeClientDone(r)
        \/ InitializeClientFails(r)
        \/ RouteValidate(r)
        \/ FindTagsReturns(r)
        \/ FindTagsFails(r)
        \/ KramStart(r)
        \/ WithRetryInvoke(r)
        \/ WithRetryResolve(r)
        \/ ImageSettled(r)
        \/ DescriptionStart(r)
        \/ DescriptionSettled(r)
        \/ TagsStart(r)
        \/ TagsSettled(r)
        \/ CreateHistoryIssued(r)
        \/ CreateHistoryReturns(r)
        \/ CreateHistoryFails(r)
        \/ CreateOutputReturns(r)
        \/ CreateOutputFails(r)
    \/ GalleryGetBeside
    \/ CheckDatabaseConnectionTrue
    \/ HistoryCountReturns
    \/ HistoryFindManyReturns

SpecGalleryWrites == InitGalleryWrites /\ [][NextGalleryWrites]_vars

\* the stores and the generation endpoint at rest
InitIdle ==
    /\ InitCommon
    /\ pc = [p \in Procs |-> IF p = Harness THEN "h_off" ELSE "off"]
    /\ envApiKey = TRUE

\* validateKramRequest on its own
InitValidate ==
    /\ InitIdle
    /\ \E request \in ValRequests : val = [NoVal EXCEPT !.pc = "called", !.request = request]
    /\ gal = NoGal
    /\ item = NoItem
    /\ post = NoPost
    /\ bat = NoBat

NextValidate == ValidateKramRequestCall

SpecValidate == InitValidate /\ [][NextValidate]_vars

\* the sizes of the history table the gallery is read on
GallerySizes == {0, 3, 25}

\* the gallery endpoint on a store that does not change
InitGallery ==
    /\ wr = [p \in Procs |-> NoFrame]
    /\ body = [r \in Reqs |-> NoBody]
    /\ selectedTags = [r \in Reqs |-> <<>>]
    /\ kram = [p \in Procs |-> NoKram]
    /\ resp = [r \in Reqs |-> NoResp]
    /\ obs = [p \in Procs |-> NoObs]
    /\ pc = [p \in Procs |-> IF p = Harness THEN "h_off" ELSE "off"]
    /\ tagsTable = {TAG_A, TAG_B, TAG_C}
    /\ \E n \in GallerySizes : historyTable = GalleryStore(n)
    /\ outputTable = {}
    /\ client = "null"
    /\ isInitialized = FALSE
    /\ clientInitialized = FALSE
    /\ envApiKey = TRUE
    /\ served = 0
    /\ val = NoVal
    /\ gal = [NoGal EXCEPT !.pc = "idle"]
    /\ item = NoItem
    /\ post = NoPost
    /\ bat = NoBat

NextGallery ==
    \/ GalleryGet
    \/ CheckDatabaseConnectionTrue
    \/ CheckDatabaseConnectionFalse
    \/ HistoryCountReturns
    \/ HistoryCountFails
    \/ HistoryFindManyReturns
    \/ HistoryFindManyFails
    \/ GalleryRetryDelayElapsed

SpecGallery == InitGallery /\ [][NextGallery]_vars

\* the gallery handler over a store of at most one page, on requests with no
\* search and the default order, where every awaited promise settles and
\* every timer fires
InitGalleryLive ==
    /\ InitGallery
    /\ Cardinality(historyTable) <= 3

NextGalleryLive ==
    \/ GalleryGetBeside
    \/ CheckDatabaseConnectionTrue
    \/ CheckDatabaseConnectionFalse
    \/ HistoryCountReturns
    \/ HistoryCountFails
    \/ HistoryFindManyReturns
    \/ HistoryFindManyFails
    \/ GalleryRetryDelayElapsed

SpecGalleryLive == InitGalleryLive /\ [][NextGalleryLive]_vars /\ WF_vars(NextGalleryLive)

\* the item endpoint on every store made of the rows above, each row with
\* its outputs
InitItem ==
    /\ wr = [p \in Procs |-> NoFrame]
    /\ body = [r \in Reqs |-> NoBody]
    /\ selectedTags = [r \in Reqs |-> <<>>]
    /\ kram = [p \in Procs |-> NoKram]
    /\ resp = [r \in Reqs |-> NoResp]
    /\ obs = [p \in Procs |-> NoObs]
    /\ pc = [p \in Procs |-> IF p = Harness THEN "h_off" ELSE "off"]
    /\ tagsTable = {TAG_A, TAG_B, TAG_C}
    /\ \E rows \in SUBSET ItemRows :
         /\ historyTable = rows
         /\ outputTable = {o \in ItemOutputs : \E h \in rows : h.id = o.history_id}
    /\ client = "null"
    /\ isInitialized = FALSE
    /\ clientInitialized = FALSE
    /\ envApiKey = TRUE
    /\ served = 0
    /\ val = NoVal
    /\ gal = NoGal
    /\ item = [NoItem EXCEPT !.pc = "idle"]
    /\ post = NoPost
    /\ bat = NoBat

NextItem ==
    \/ ItemGet
    \/ HistoryFindUniqueReturns
    \/ HistoryFindUniqueFails

SpecItem == InitItem /\ [][NextItem]_vars

\* the tag creation endpoint, on the three tags of the store
InitTags ==
    /\ wr = [p \in Procs |-> NoFrame]
    /\ body = [r \in Reqs |-> NoBody]
    /\ selectedTags = [r \in Reqs |-> <<>>]
    /\ kram = [p \in Procs |-> NoKram]
    /\ resp = [r \in Reqs |-> NoResp]
    /\ obs = [p \in Procs |-> NoObs]
    /\ pc = [p \in Procs |-> IF p = Harness THEN "h_off" ELSE "off"]
    /\ tagsTable = {TAG_A, TAG_B, TAG_C}
    /\ historyTable = {}
    /\ outputTable = {}
    /\ client = "null"
    /\ isInitialized = FALSE
    /\ clientInitialized = FALSE
    /\ envApiKey = TRUE
    /\ served = 0
    /\ val = NoVal
    /\ gal = NoGal
    /\ item = NoItem
    /\ post = [p \in Posters |-> [NoPoster EXCEPT !.pc = "idle"]]
    /\ bat = NoBat

NextTags ==
    \E p \in Posters :
        \/ TagsPost(p)
        \/ TagsFindFirstReturns(p)
        \/ TagsCreateReturns(p)
        \/ TagsQueryFails(p)

SpecTags == InitTags /\ [][NextTags]_vars

\* generateImageBatch called on its own
InitBatch ==
    /\ InitIdle
    /\ val = NoVal
    /\ gal = NoGal
    /\ item = NoItem
    /\ post = NoPost
    /\ bat = [NoBat EXCEPT !.pc = "idle"]

NextBatch ==
    \/ GenerateImageBatch
    \/ BatchLoop
    \/ ImageHelperSettles
    \/ BatchAllSettled
    \/ BatchDelayElapsed

SpecBatch == InitBatch /\ [][NextBatch]_vars

\* every imageHelper call settles, every timer fires and the code goes on
SpecBatchLive == InitBatch /\ [][NextBatch]_vars /\ WF_vars(NextBatch)

-----------------------------------------------------------------------------
(* Properties of withRetry, under SpecRetry *)

H == wr[Harness]

\* the two error classes that are not retried
IsNonRetryableMessage(msg) ==
    Includes(msg, "content_policy_violation") \/ Includes(msg, "invalid_request")

\* the operation has failed at least once in the running call
HasFailed == H.lastError # NoError

\* C1: a failure whose message contains "content_policy_violation" or
\* "invalid_request" ends withRetry at once: that same error is thrown, the
\* operation is not invoked again and no delay follows it; when it is the
\* first invocation that fails so, the operation has been invoked exactly once
\* and no delay has been waited at all.
C1_NonRetryableNotRetried ==
    (HasFailed /\ IsNonRetryableMessage(H.lastError.msg)) =>
        /\ pc[Harness] \in {"wr_end", "h_done"}
        /\ H.outcome = "threw"
        /\ H.thrown = H.lastError
        /\ H.invocations = H.lastError.inv
        /\ Len(H.delays) = H.lastError.inv - 1
        /\ H.delay = 0
        /\ (H.attempt = 0 => H.invocations = 1 /\ H.delays = <<>>)

C1_Witness ==
    /\ pc[Harness] = "h_done"
    /\ H.outcome = "threw"
    /\ Includes(H.thrown.msg, "invalid_request")
    /\ H.invocations = 1
    /\ H.config.maxRetries = MaxRetries

\* C2: when every invocation fails with a retryable message, the operation is
\* invoked maxRetries + 1 times (4 times with the default 3) and the error
\* thrown is the error of the last invocation; when an invocation succeeds its
\* value is returned and the operation is not invoked again.
C2_RetriedUpToMaximum ==
    /\ (H.outcome = "threw" /\ ~IsNonRetryableMessage(H.thrown.msg)) =>
          /\ H.invocations = H.config.maxRetries + 1
          /\ (H.config.maxRetries = 3 => H.invocations = 4)
          /\ H.thrown.inv = H.invocations
          /\ H.thrown = H.lastError
    /\ H.outcome = "returned" =>
          /\ H.value = "value"
          /\ pc[Harness] \in {"wr_end", "h_done"}
          /\ H.invocations = H.attempt + 1
    /\ H.invocations <= H.config.maxRetries + 1

C2_Witness ==
    /\ pc[Harness] = "h_done"
    /\ H.config = DEFAULT_RATE_LIMIT_CONFIG
    /\ H.outcome = "threw"
    /\ H.thrown.msg = E_TIMEOUT
    /\ H.invocations = 4

\* the delay after failed attempt k: 1000, 2000, 4000, then 8000
ExpectedDelay(k) ==
    IF k = 0 THEN 1000 ELSE IF k = 1 THEN 2000 ELSE IF k = 2 THEN 4000 ELSE 8000

\* C3: the delay waited after failed attempt k is min(1000 * 2^k, 8000) ms, so
\* the delays run 1000, 2000, 4000, 8000, 8000, ... and none exceeds 8000 for
\* any maxRetries; no delay is waited after the final attempt.
C3_BackoffDelays ==
    /\ \A i \in 1..Len(H.delays) :
          H.delays[i] = ExpectedDelay(i - 1) /\ H.delays[i] <= 8000
    /\ Len(H.delays) <= H.config.maxRetries
    /\ pc[Harness] = "wr_delay" =>
          /\ H.delay = ExpectedDelay(H.attempt)
          /\ H.attempt < H.config.maxRetries
          /\ Len(H.delays) = H.attempt + 1
    /\ H.outcome = "threw" => Len(H.delays) = H.invocations - 1

C3_Witness ==
    /\ pc[Harness] = "h_done"
    /\ H.outcome = "threw"
    /\ Len(H.delays) = 5
    /\ H.delays[3] = 4000
    /\ H.delays[5] = 8000

-----------------------------------------------------------------------------
(* Properties of the generation endpoint, under Spec *)

Done(r) == pc[r] = "done"

HistoryBy(r) == {h \in historyTable : h.by = obs[r].reqNo}
OutputsBy(r) == {o \in outputTable : o.by = obs[r].reqNo}

\* C4: a request that has failed (any status but 201) has left no History row
\* and no OutputGenerate row.
C4_NoPartialPersistence ==
    \A r \in Serial :
        (Done(r) /\ resp[r].status # 201) => HistoryBy(r) = {} /\ OutputsBy(r) = {}

\* C5: a request answered 201 has created exactly one History row and at least
\* one OutputGenerate row that references it; the response's history_id is that
\* row's id and generated_outputs holds the created output.
C5_SuccessPersistsOnce ==
    \A r \in Serial :
        (Done(r) /\ resp[r].status = 201) =>
            /\ Cardinality(HistoryBy(r)) = 1
            /\ \A h \in HistoryBy(r) :
                  /\ resp[r].history_id = h.id
                  /\ \E o \in OutputsBy(r) : o.history_id = h.id /\ o.id \in resp[r].outputs
                  /\ \A o \in OutputsBy(r) : o.history_id = h.id
            /\ resp[r].outputs = {o.id : o \in OutputsBy(r)}
            /\ Cardinality(resp[r].outputs) = 1

C5_Witness ==
    \E r \in Serial :
        /\ Done(r) /\ resp[r].status = 201
        /\ obs[r].reqNo = 2
        /\ Cardinality(historyTable) = 2
        /\ selectedTags[r] # <<>>

\* the steps of generateKramPattern that call the external API, in order
ExternalSteps == <<"image_generation", "description_generation", "tag_generation">>
StepIndex(step) == CHOOSE i \in 1..3 : ExternalSteps[i] = step

\* C6: when the external call of a step has failed for good, no later step's
\* external call is issued, nothing is persisted, and the KramPatternError
\* thrown carries that step as its phase.
C6_FailureAborts ==
    \A r \in Serial : \A step \in obs[r].extFailed :
        /\ kram[r].error.phase = step
        /\ \A later \in obs[r].called : StepIndex(later) <= StepIndex(step)
        /\ obs[r].writes = 0
        /\ HistoryBy(r) = {} /\ OutputsBy(r) = {}

PhaseOrder ==
    <<"validate", "generate_image", "generate_description", "generate_tags", "persist">>

\* the external step of a phase has produced its result
Succeeded(r, phase) ==
    /\ phase \in obs[r].completed
    /\ phase = "generate_description" => kram[r].description.kind = "generated"
    /\ phase = "generate_tags" => kram[r].outputTags = "generated"

\* the phases run in the order of PhaseOrder, none before the one before it
\* has returned; at most one external call is in flight; rows are written only
\* after the tag phase has returned
C7_Sequential ==
    \A r \in Serial :
        /\ Len(obs[r].phases) <= 5
        /\ \A i \in 1..Len(obs[r].phases) : obs[r].phases[i] = PhaseOrder[i]
        /\ \A i \in 2..Len(obs[r].phases) : obs[r].phases[i - 1] \in obs[r].completed
        /\ obs[r].inflight <= 1
        /\ (obs[r].writes > 0 \/ HistoryBy(r) # {} \/ OutputsBy(r) # {}) =>
              "generate_tags" \in obs[r].completed

\* C7: as C7_Sequential, and a phase begins only after the previous phase has
\* completed successfully.
C7_SequentialAfterSuccess ==
    /\ C7_Sequential
    /\ \A r \in Serial :
          \A i \in 2..Len(obs[r].phases) : Succeeded(r, obs[r].phases[i - 1])

\* states in which the code departs from C4, C6 and C7
C4_PartialRow ==
    \E r \in Serial :
        /\ Done(r) /\ resp[r].status = 500
        /\ Cardinality(HistoryBy(r)) = 1 /\ OutputsBy(r) = {}

C6_ContinuedAfterFailure ==
    \E r \in Serial :
        /\ Done(r) /\ resp[r].status = 201
        /\ obs[r].extFailed = {"description_generation"}
        /\ "tag_generation" \in obs[r].called
        /\ HistoryBy(r) # {}

C7_BegunAfterFailure ==
    \E r \in Serial :
        /\ Len(obs[r].phases) >= 4
        /\ obs[r].phases[4] = "generate_tags"
        /\ kram[r].description.kind = "fallback"
        /\ "description_generation" \in obs[r].extFailed

-----------------------------------------------------------------------------
(* Properties of the tag ids of a generation request *)

HasMalformedId(r) == \E i \in 1..Len(body[r].tag_ids) : ~UuidRegexTest(body[r].tag_ids[i])

Untouched(r) ==
    /\ obs[r].called = {} /\ obs[r].inflight = 0
    /\ obs[r].writes = 0 /\ HistoryBy(r) = {} /\ OutputsBy(r) = {}

\* C8 as stated: a request with a tag id that is not of UUID shape is answered
\* 400, with no tag lookup, no external call and no persistence.
C8_MalformedIdIs400 ==
    \A r \in Serial :
        (body[r] # NoBody /\ HasMalformedId(r)) =>
            /\ obs[r].lookups = 0 /\ Untouched(r)
            /\ Done(r) => resp[r].status = 400

\* the request has gone past ensureClientInitialized
ReachedValidation(r) == Len(obs[r].phases) > 0

\* C8: a request with a tag id that is not of UUID shape never gets a tag
\* lookup, an external call or a row written; it is answered 400 when the
\* client could be initialized, and 500 before validation when it could not.
C8_MalformedIdRejected ==
    \A r \in Serial :
        (body[r] # NoBody /\ HasMalformedId(r)) =>
            /\ obs[r].lookups = 0 /\ Untouched(r)
            /\ Done(r) => resp[r].status = (IF ReachedValidation(r) THEN 400 ELSE 500)

C8_Witness ==
    \E r \in Serial :
        /\ Done(r) /\ resp[r].status = 400
        /\ body[r].tag_ids = <<ID_ABSENT, ID_V0>>
        /\ ~PromptEmpty(body[r].prompt)
        /\ obs[r].phases = <<"validate">>

\* a well-formed tag id of the request is not in the Tag store
HasAbsentId(r) ==
    \E i \in 1..Len(body[r].tag_ids) :
        /\ UuidRegexTest(body[r].tag_ids[i])
        /\ \A t \in tagsTable : t.id # body[r].tag_ids[i]

\* C9 as stated: a request with a well-formed tag id that is not in the Tag
\* store is answered 404, with no external call and no row written.
C9_AbsentIdIs404 ==
    \A r \in Serial :
        (body[r] # NoBody /\ HasAbsentId(r)) =>
            /\ Untouched(r)
            /\ Done(r) => resp[r].status = 404

\* C9: a request with a well-formed tag id that is not in the Tag store never
\* gets an external call or a row written, and it is answered 404 whenever the
\* tag lookup has returned (the request passed initialization and validation
\* with every id well-formed, and findMany did not reject).
C9_AbsentIdRejected ==
    \A r \in Serial :
        (body[r] # NoBody /\ HasAbsentId(r)) =>
            /\ Untouched(r)
            /\ (Done(r) /\ obs[r].lookedUp) => resp[r].status = 404

C9_Witness ==
    \E r \in Serial :
        /\ Done(r) /\ resp[r].status = 404
        /\ body[r].tag_ids = <<ID_A, ID_ABSENT>>
        /\ obs[r].lookedUp
        /\ Len(selectedTags[r]) = 1

-----------------------------------------------------------------------------
(* Properties of the status of an upstream failure *)

\* C10: an image failure caused by an upstream content-policy violation is
\* answered 400, one caused by an upstream rate-limit or quota error 429, and
\* any other upstream failure of the image, description or tag step 502.
C10_UpstreamStatus ==
    \A r \in Serial :
        (Done(r) /\ obs[r].extFailed # {}) =>
            resp[r].status =
                IF "image_generation" \in obs[r].extFailed
                   /\ Includes(obs[r].upstream, "content_policy_violation")
                THEN 400
                ELSE IF "image_generation" \in obs[r].extFailed
                        /\ (Includes(obs[r].upstream, "rate_limit")
                            \/ Includes(obs[r].upstream, "quota"))
                THEN 429
                ELSE 502

\* a state in which the code departs from C10
C10_PolicyViolationIs502 ==
    \E r \in Serial :
        /\ Done(r) /\ resp[r].status = 502
        /\ obs[r].extFailed = {"image_generation"}
        /\ obs[r].upstream = E_POLICY

-----------------------------------------------------------------------------
(* Properties of validateKramRequest, under SpecValidate *)

Returned == val.pc = "returned"

Reported(message) == \E i \in 1..Len(val.result.errors) : val.result.errors[i] = message

E_EMPTY == "Prompt cannot be empty"
E_LENGTH == "Prompt too long (max 900 characters)"
E_MAX_TOKENS == "Invalid max_tokens (must be between 50 and 2000)"

Rule(broken, message) == IF broken THEN {message} ELSE {}

BrokenRules ==
    LET request == val.request
        dalle == request.dalle_options
        chat == request.chat_options
    IN  Rule(PromptEmpty(request.prompt), E_EMPTY)
        \cup Rule(~PromptEmpty(request.prompt) /\ request.prompt.len > 900, E_LENGTH)
        \cup Rule(request.hasTags /\ Len(request.tags) > 10, "Too many tags (max 10 allowed)")
        \cup Rule(request.hasTags
                  /\ \E i \in 1..Len(request.tags) : ~UuidRegexTest(request.tags[i].id),
                  "Invalid tag ID format")
        \cup Rule(dalle.present /\ dalle.size # ""
                  /\ dalle.size \notin {"1024x1024", "1792x1024", "1024x1792"},
                  "Invalid image size")
        \cup Rule(dalle.present /\ dalle.quality # ""
                  /\ dalle.quality \notin {"standard", "hd"},
                  "Invalid image quality")
        \cup Rule(dalle.present /\ dalle.style # ""
                  /\ dalle.style \notin {"vivid", "natural"},
                  "Invalid image style")
        \cup Rule(chat.present /\ chat.model # ""
                  /\ chat.model \notin {"gpt-4", "gpt-4-turbo", "gpt-3.5-turbo"},
                  "Invalid chat model")
        \cup Rule(chat.present /\ chat.hasMaxTokens
                  /\ (chat.max_tokens < 50 \/ chat.max_tokens > 2000),
                  E_MAX_TOKENS)

\* C12: the call changes nothing but its result, the errors list holds the
\* message of every rule the request breaks, and valid is true exactly when
\* the errors list is empty.
C12_AccumulatesAll ==
    Returned =>
        /\ \A message \in BrokenRules : Reported(message)
        /\ val.result.valid <=> val.result.errors = <<>>

\* a state in which the code departs from C12: two rules are broken, one is
\* reported
C12_RuleUnreported ==
    /\ Returned
    /\ Cardinality(BrokenRules) = 2
    /\ val.result.errors = <<E_LENGTH>>

\* C13: a max_tokens outside 50..2000, 0 and negative numbers included, gets
\* the 'Invalid max_tokens' error, and a max_tokens inside the range does not.
C13_MaxTokensRange ==
    (Returned /\ val.request.chat_options.present /\ val.request.chat_options.hasMaxTokens) =>
        (Reported(E_MAX_TOKENS) <=>
            (val.request.chat_options.max_tokens < 50
             \/ val.request.chat_options.max_tokens > 2000))

\* a state in which the code departs from C13
C13_ZeroAccepted ==
    /\ Returned
    /\ val.request.chat_options.hasMaxTokens
    /\ val.request.chat_options.max_tokens = 0
    /\ val.result.valid

-----------------------------------------------------------------------------
(* Properties of GET /api/v1/kram/gallery, under SpecGallery *)

GalleryOk == gal.pc = "done" /\ gal.status = 200

\* the number of rows of the page that starts after skip rows
PageSize(totalItems, skip, limit) ==
    IF totalItems <= skip THEN 0
    ELSE IF totalItems - skip < limit THEN totalItems - skip ELSE limit

\* C14: in every 200 response the page holds at most limit items (the rows
\* left after the pages before it, up to limit), totalPages is the least
\* number of pages of limit rows that hold totalItems rows, hasNext is true
\* exactly when currentPage < totalPages and hasPrev exactly when
\* currentPage > 1.
C14_PaginationConsistent ==
    GalleryOk =>
        LET m == gal.pagination
        IN  /\ m.currentPage = gal.page.n /\ m.limit = gal.limit.n
            /\ m.totalItems = Cardinality(Where(gal.search))
            /\ Len(gal.data) <= m.limit
            /\ Len(gal.data) = PageSize(m.totalItems, (m.currentPage - 1) * m.limit, m.limit)
            /\ m.totalPages * m.limit >= m.totalItems
            /\ (m.totalPages - 1) * m.limit < m.totalItems
            /\ m.hasNext = (m.currentPage < m.totalPages)
            /\ m.hasPrev = (m.currentPage > 1)

\* 25 items, page 2, limit 10: totalPages 3, hasNext, hasPrev, 10 items
C14_Witness ==
    /\ GalleryOk
    /\ Cardinality(historyTable) = 25
    /\ gal.query.page = Param("2") /\ gal.query.limit = Param("10")
    /\ gal.query.search = NoParam
    /\ gal.pagination.totalItems = 25 /\ gal.pagination.totalPages = 3
    /\ gal.pagination.hasNext /\ gal.pagination.hasPrev
    /\ Len(gal.data) = 10

\* the query parameters have been read
GalleryParsed == gal.executed >= 1

\* C15: whatever the page and limit parameters, the handler queries with a
\* page that is an integer >= 1 and a limit that is an integer in 1..100, so
\* skip is an integer >= 0.
C15_EffectivePaging ==
    GalleryParsed =>
        /\ ~gal.page.nan /\ gal.page.n >= 1
        /\ ~gal.limit.nan /\ gal.limit.n >= 1 /\ gal.limit.n <= MaxLimit
        /\ (gal.page.n - 1) * gal.limit.n >= 0

\* the plain revision has issued findMany with a page that is NaN
C15_NaNPage ==
    /\ gal.rev = "plain" /\ gal.pc = "find"
    /\ gal.query.page = Param("abc")
    /\ gal.page.nan

\* C16: whatever the sortBy and sortOrder parameters, the query orders by
\* create_at or prompt_message (create_at when the parameter is anything
\* else) and in direction asc or desc (desc when it is anything else).
C16_SortRestricted ==
    gal.orderBy # <<>> =>
        /\ gal.orderBy[1] \in {"create_at", "prompt_message"}
        /\ gal.orderBy[2] \in {"asc", "desc"}
        /\ gal.query.sortBy # Param("prompt_message") => gal.orderBy[1] = "create_at"
        /\ gal.query.sortOrder # Param("asc") => gal.orderBy[2] = "desc"

\* the plain revision has answered 200 with the rows ordered by id
C16_OrderedById ==
    /\ GalleryOk /\ gal.rev = "plain"
    /\ gal.query.sortBy = Param("id")
    /\ gal.orderBy = <<"id", "desc">>
    /\ Cardinality(historyTable) = 3
    /\ gal.data = <<3, 2, 1>>

\* the errors of a database that is unavailable for a while
Transient == {DB_UNREACHABLE, DB_POOL_TIMEOUT, DB_EMPTY, DB_REFUSED}

IsPrefix(s, t) == Len(s) <= Len(t) /\ s = SubSeq(t, 1, Len(s))

LastFailure == gal.failures[Len(gal.failures)]

\* C17: in the retry revision the query is executed at most 3 times, the
\* delays waited are 1000 ms and then 2000 ms, and a query that fails with a
\* transient database error is given up only after its third execution.
C17_TransientRetried ==
    gal.rev = "retry" =>
        /\ gal.executed <= GalleryMaxRetries
        /\ IsPrefix(gal.delays, <<1000, 2000>>)
        /\ Len(gal.delays) = gal.connectionAttempts
        /\ (gal.pc = "done" /\ gal.status # 200 /\ LastFailure \in Transient)
               => gal.executed = GalleryMaxRetries

\* the first execution failed since the server could not be reached, and
\* the answer is 503 with no second execution
C17_UnreachableNotRetried ==
    /\ gal.rev = "retry" /\ gal.pc = "done"
    /\ gal.failures = <<DB_UNREACHABLE>>
    /\ gal.executed = 1 /\ gal.delays = <<>>
    /\ gal.status = 503

\* C18: in the retry revision a failed connection check is answered only
\* when the attempts are exhausted, and then with 503 or 500; before that
\* the handler waits and checks again.
C18_CheckFailureRetried ==
    (gal.rev = "retry" /\ gal.pc = "done" /\ gal.status # 200
        /\ LastFailure = DB_CHECK_FAILED)
    => /\ gal.checks = GalleryMaxRetries
       /\ gal.status \in {503, 500}

\* the first connection check failed and the answer is 500 at once
C18_FirstCheckFailureSurfaced ==
    /\ gal.rev = "retry" /\ gal.pc = "done"
    /\ gal.failures = <<DB_CHECK_FAILED>>
    /\ gal.checks = 1 /\ gal.executed = 0 /\ gal.delays = <<>>
    /\ gal.status = 500

-----------------------------------------------------------------------------
(* Properties of GET /api/v1/kram/gallery/[id], under SpecItem *)

ItemDone == item.pc = "done"

\* the History rows whose id is the requested one
RowsWithId == {h \in historyTable : h.id = item.id}

\* C20: an id that is not of UUID shape is answered 400 and findUnique is
\* never called for it; an id of UUID shape is answered, once findUnique has
\* returned, 404 when no History row has that id and 200 when one has, with
\* that row, its tag (null when it has none) and its outputs; the only other
\* answer is the 500 of a findUnique that rejected.
C20_ItemStatus ==
    /\ (item.pc # "idle" /\ ~UuidRegexTest(item.id)) =>
           /\ item.queries = 0
           /\ ItemDone /\ item.status = 400
    /\ (ItemDone /\ UuidRegexTest(item.id)) =>
           /\ item.queries = 1
           /\ item.status = 500 <=> item.rejected
           /\ (~item.rejected /\ RowsWithId = {}) => item.status = 404
           /\ (~item.rejected /\ RowsWithId # {}) =>
                 /\ item.status = 200
                 /\ \E h \in RowsWithId :
                      /\ item.data.id = h.id /\ item.data.tags_id = h.tags_id
                      /\ IF h.tags_id = "null" THEN item.data.tag = "null"
                         ELSE item.data.tag \in tagsTable /\ item.data.tag.id = h.tags_id
                      /\ {item.data.output_logs[i] : i \in 1..Len(item.data.output_logs)}
                           = {o.id : o \in {x \in outputTable : x.history_id = h.id}}

\* the three answers: 400 without a query, 404 for the upper-case spelling
\* of a stored id, 200 with the row, its tag and its two outputs
C20_Witness400 == ItemDone /\ item.id = ID_V0 /\ item.status = 400 /\ item.queries = 0
C20_Witness404 ==
    /\ ItemDone /\ item.id = HID_1U /\ item.status = 404
    /\ ItemRow(HID_1, ID_A) \in historyTable
C20_Witness ==
    /\ ItemDone /\ item.id = HID_1 /\ item.status = 200
    /\ item.data.tag = TAG_A
    /\ item.data.output_logs = <<1, 2>>

-----------------------------------------------------------------------------
(* Properties of POST /api/v1/kram/tags, under SpecTags *)

SameName(a, b) == Lower(a) = Lower(b)

\* C19: after any sequence or interleaving of POST requests no two rows of
\* the Tag store have names equal ignoring case, and a POST whose name is that
\* of a stored tag, ignoring case, is answered 409 and creates no row.
C19_NamesUnique ==
    /\ \A t, u \in tagsTable : t # u => ~SameName(t.name, u.name)
    /\ \A p \in Posters :
         (post[p].pc = "done" /\ post[p].status \notin {400, 500}
            /\ \E n \in post[p].namesAtCheck : SameName(n, Trim(post[p].name)))
         => post[p].status = 409 /\ post[p].created = "null"

\* one request after the other: "Indigo" is stored, then "indigo " passes
\* the lookup and is stored as "indigo"
C19_DuplicateAfterTrim ==
    \E p \in Posters :
        /\ post[p].pc = "done" /\ post[p].status = 201
        /\ post[p].name = "indigo " /\ post[p].created = "indigo"
        /\ "Indigo" \in post[p].namesAtCheck
        /\ \E t, u \in tagsTable : t.name = "Indigo" /\ u.name = "indigo"

\* two requests at a time with the same name: both pass the lookup before
\* either creates, and two rows named "Indigo" are stored
C19_DuplicateByRace ==
    /\ \A p \in Posters :
         /\ post[p].pc = "done" /\ post[p].status = 201 /\ post[p].posts = 1
         /\ post[p].name = "Indigo" /\ "Indigo" \notin post[p].namesAtCheck
    /\ Cardinality({t \in tagsTable : t.name = "Indigo"}) = 2

\* a request with the name of a stored tag in another case is answered 409
C19_DuplicateRefused ==
    \E p \in Posters :
        /\ post[p].pc = "done" /\ post[p].status = 409
        /\ post[p].name = "kram blue" /\ post[p].created = "null"

-----------------------------------------------------------------------------
(* Properties of the client handle, under SpecConcurrent *)

\* the handlers awaiting the import inside initializeClient
InitializingNow == {r \in Reqs : pc[r] = "init_import"}

\* C21: initializeClient is in flight or has succeeded at most once in the
\* process, and no external call is issued or in flight while getClient
\* would throw.
C21_InitializedOnce ==
    /\ Cardinality(InitializingNow) + (IF clientInitialized THEN 1 ELSE 0) <= 1
    /\ \A r \in Reqs : (obs[r].inflight > 0 \/ obs[r].called # {}) => ClientReady

\* two requests arrived before the first import resolved: both are inside
\* initializeClient
C21_TwoInitializing ==
    /\ InitializingNow = Reqs
    /\ ~clientInitialized /\ ~ClientReady

-----------------------------------------------------------------------------
(* Properties of generateImageBatch, under SpecBatch and SpecBatchLive *)

BatchReturned == bat.pc = "returned"

\* C22: at most maxConcurrent imageHelper calls of the run are in flight;
\* a batch begins only when every call of the batches before it has settled
\* and one delay has been waited after each of them; every delay is
\* delayBetweenBatches; and no delay follows the last batch.
C22_BoundedLoad ==
    /\ Cardinality(bat.pending) <= bat.maxConcurrent
    /\ bat.pc \in {"loop", "delay", "returned"} => bat.pending = {}
    /\ \A j \in 1..Len(bat.starts) :
         /\ bat.starts[j].delays = j - 1
         /\ bat.starts[j].results = bat.starts[j].i
    /\ \A j \in 1..Len(bat.delays) : bat.delays[j] = bat.delayBetweenBatches
    /\ BatchReturned =>
         Len(bat.delays) = (IF bat.batches = 0 THEN 0 ELSE bat.batches - 1)

\* four prompts with the defaults: two batches of two and one delay of
\* 3000 ms between them
C22_Witness ==
    /\ BatchReturned
    /\ Len(bat.prompts) = 4 /\ bat.maxConcurrent = DefaultMaxConcurrent
    /\ bat.batches = 2
    /\ bat.delays = <<DefaultDelayBetweenBatches>>

\* C27: the array returned has one entry per input, in the order of the
\* inputs; entry i has the prompt of input i, success = true and a result
\* when the imageHelper call of input i returned, success = false and an
\* error when it threw.
C27_OneResultPerInput ==
    BatchReturned =>
        /\ Len(bat.results) = Len(bat.prompts)
        /\ \A k \in 1..Len(bat.results) :
             /\ bat.results[k].input = k
             /\ bat.results[k].prompt = bat.prompts[k]
             /\ bat.results[k].success = (bat.outcome[k] = "ok")
             /\ bat.results[k].result = bat.results[k].success
             /\ bat.results[k].error = ~bat.results[k].success

\* three prompts in one batch: the second call settled first and the first
\* one threw
C27_Witness ==
    /\ BatchReturned
    /\ Len(bat.prompts) = 3 /\ bat.maxConcurrent = 3
    /\ bat.settled = <<2, 1, 3>>
    /\ bat.outcome[1] = "failed" /\ bat.outcome[2] = "ok"
    /\ ~bat.results[1].success /\ bat.results[2].success

\* C28: when every imageHelper call settles, the function returns.
C28_Terminates == <>BatchReturned

\* maxConcurrent = 0 with a prompt to serve: batch after batch is empty, i
\* stays 0 and nothing is pushed
C28_EmptyBatches ==
    /\ bat.maxConcurrent = 0 /\ Len(bat.prompts) > 0
    /\ bat.batches >= 3 /\ Len(bat.delays) >= 2
    /\ bat.i = 0 /\ bat.results = <<>>

-----------------------------------------------------------------------------
(* Properties of the rows written by the generation endpoint, under Spec *)

\* C23: the History row of a successful request has tags_id null when the
\* request selected no tag, and otherwise the id of the first of
\* selectedTags, the rows findMany returned for the tag ids of the request
\* (in the order the database returned them).
C23_FirstSelectedTag ==
    \A r \in Serial :
        (Done(r) /\ resp[r].status = 201) =>
            /\ Cardinality(HistoryBy(r)) = 1
            /\ \A h \in HistoryBy(r) :
                 /\ Len(body[r].tag_ids) = 0 => h.tags_id = "null"
                 /\ Len(body[r].tag_ids) > 0 =>
                      /\ h.tags_id = selectedTags[r][1].id
                      /\ h.tags_id \in Range(body[r].tag_ids)

\* two tags selected, one link: findMany returned ID_A before ID_B
C23_Witness ==
    \E r \in Serial :
        /\ Done(r) /\ resp[r].status = 201
        /\ body[r].tag_ids = <<ID_B, ID_A>>
        /\ Len(selectedTags[r]) = 2 /\ selectedTags[r][1].id = ID_A
        /\ \E h \in HistoryBy(r) : h.tags_id = ID_A

-----------------------------------------------------------------------------
(* Properties of the stores, under SpecStores *)

\* C24: in every state every OutputGenerate row references a History row
\* that exists, the one its request created, and every History row with a
\* tags_id references a Tag row that exists.
C24_ReferentialIntegrity ==
    /\ \A o \in outputTable :
         \E h \in historyTable : h.id = o.history_id /\ h.by = o.by
    /\ \A h \in historyTable :
         h.tags_id # "null" => \E t \in tagsTable : t.id = h.tags_id

\* two requests have written their rows, the second one linked to the tag
\* that a POST created
C24_Witness ==
    /\ Cardinality(outputTable) = 2
    /\ \E t \in tagsTable : t.id = ID_CREATED
    /\ \E h \in historyTable : h.tags_id = ID_CREATED
    /\ \A r \in Serial : Done(r) /\ resp[r].status = 201 /\ body[r].tag_ids = <<ID_A, ID_CREATED>>

-----------------------------------------------------------------------------
(* Properties of the prompt handed to imageHelper, under Spec *)

\* the request has passed validateKramRequest inside generateKramPattern
KramValidated(r) == "validate" \in obs[r].completed

E_DALLE_LENGTH == "Invalid prompt: Prompt too long. DALL-E prompts should be under 1000 characters"

\* C25: for every request that validateKramRequest accepts, the prompt built
\* for imageHelper is at most 1000 characters long, and the request does not
\* fail in the image_generation phase with validatePrompt's length error.
C25_ValidatedPromptFits ==
    \A r \in Serial :
        KramValidated(r) =>
            /\ BuildEnhancedPromptWithImages(body[r].prompt, selectedTags[r]).len
                   <= MaxDallePromptLen
            /\ kram[r].error.originalMessage # E_DALLE_LENGTH

\* a prompt of 700 characters with one tag: accepted, and refused by
\* validatePrompt since the template brings it over 1000 characters
C25_TemplateOverflows ==
    \E r \in Serial :
        /\ Done(r) /\ KramValidated(r)
        /\ body[r].prompt = P_LONG /\ body[r].tag_ids = <<ID_A>>
        /\ kram[r].phase = "image_generation"
        /\ kram[r].error.originalMessage = E_DALLE_LENGTH
        /\ obs[r].called = {}
        /\ resp[r].status >= 400

-----------------------------------------------------------------------------
(* Properties of the 404 of the generation endpoint, under Spec *)

\* every tag id of the request is of UUID shape and is the id of a Tag row
AllTagsExist(r) ==
    \A i \in 1..Len(body[r].tag_ids) :
        /\ UuidRegexTest(body[r].tag_ids[i])
        /\ \E t \in tagsTable : t.id = body[r].tag_ids[i]

\* C26: a request whose tag ids are all well-formed and all ids of stored
\* tags, the same id named twice included, is not answered 404.
C26_NotFoundOnlyWhenAbsent ==
    \A r \in Serial :
        (Done(r) /\ body[r] # NoBody /\ AllTagsExist(r)) => resp[r].status # 404

\* the id of a stored tag named twice: findMany returns one row for two ids
\* and the answer is 404
C26_DuplicateIdIs404 ==
    \E r \in Serial :
        /\ Done(r) /\ resp[r].status = 404
        /\ body[r].tag_ids = <<ID_A, ID_A>>
        /\ obs[r].lookedUp
        /\ Len(selectedTags[r]) = 1 /\ selectedTags[r][1].id = ID_A

-----------------------------------------------------------------------------
(* Properties of the gallery read beside writes, under SpecGalleryWrites *)

\* C29: in every 200 response the page holds at most totalItems rows, and
\* it is empty when totalPages = 0.
C29_CountCoversPage ==
    GalleryOk =>
        /\ Len(gal.data) <= gal.pagination.totalItems
        /\ gal.pagination.totalPages = 0 => gal.data = <<>>

\* the plain revision counted an empty table, a generation request then
\* wrote its History row, and findMany returned it: one item of 0
C29_RowAfterCount ==
    /\ GalleryOk /\ gal.rev = "plain"
    /\ gal.pagination.totalItems = 0 /\ gal.pagination.totalPages = 0
    /\ Len(gal.data) = 1
    /\ \E h \in historyTable : h.id = gal.data[1]

-----------------------------------------------------------------------------
(* The retry loop of GET /api/v1/kram/gallery, under SpecGalleryLive *)

\* the errors thrown before the last one
EarlierFailures == SubSeq(gal.failures, 1, Len(gal.failures) - 1)

\* what holds of the retry loop in every state
RetryLoopBounded ==
    gal.rev = "retry" =>
        /\ gal.checks <= GalleryMaxRetries
        /\ gal.respondedIn # "after_loop"
        /\ gal.pc = "done" <=> gal.respondedIn \in {"try", "inner_catch", "loop_catch"}
        /\ \A k \in 1..Len(EarlierFailures) : ConnectionRelated(EarlierFailures[k].message)
        /\ (gal.failures # <<>> /\ ~ConnectionRelated(LastFailure.message)) =>
               /\ gal.pc = "done" /\ gal.respondedIn = "inner_catch"
               /\ gal.status = HandleDatabaseError(LastFailure)
               /\ gal.checks = Len(gal.failures)
               /\ Len(gal.delays) = Len(gal.failures) - 1

\* C30: every gallery GET of the retry revision ends with a response, made
\* in the try block or in a catch of the retry loop and never after the loop;
\* performDatabaseOperation runs at most 3 times; an error that is not
\* connection-related is answered on the attempt where it occurs, with no
\* delay and no further attempt after it.
C30_RespondsInsideLoop ==
    /\ []RetryLoopBounded
    /\ (gal.rev = "retry") ~> (gal.pc = "done")

\* the second attempt failed since the table is missing, after a first one
\* that was retried, and it was answered at once
C30_SecondAttemptAnswered ==
    /\ gal.rev = "retry" /\ gal.pc = "done"
    /\ Len(gal.failures) = 2
    /\ ConnectionRelated(gal.failures[1].message)
    /\ ~ConnectionRelated(gal.failures[2].message)
    /\ gal.checks = 2 /\ gal.delays = <<1000>>
    /\ gal.respondedIn = "inner_catch"

====
